---- MODULE Spec2Model ----
(***************************************************************************)
(* Model of the real-time conversational session engine of                 *)
(* walshy828/resume_chatbot: the Socket.IO connect handler with its origin *)
(* validation, the send_message handler with its two commits and its       *)
(* event stream, and the response generator it drives                      *)
(* (src/app/api.py, src/app/models.py, src/config.py).                     *)
(*                                                                         *)
(* Texts are sequences of one-character strings, so that strip(), lower(), *)
(* substring tests and split('/') are computed character by character.     *)
(* Handlers run in threads (async_mode='threading'); each handler is a     *)
(* small process whose steps are the points where it reads or writes the   *)
(* shared store or emits an event.                                         *)
(*                                                                         *)
(* chat_sessions.title and chat_sessions.user_identifier are the columns   *)
(* added by src/scripts/bootstrap_migrate.py; src/app/api.py reads and     *)
(* writes them as mapped attributes and the model follows api.py.          *)
(***************************************************************************)
EXTENDS Integers, Sequences, FiniteSets, TLC

VARIABLES
    sessions,      \* chat_sessions rows: session_id -> row (DOMAIN = stored ids)
    messages,      \* chat_messages rows, in insertion order
    clock,         \* datetime.utcnow(): strictly increasing at every read
    conns,         \* per Socket.IO connection: progress through handle_connect
    rooms,         \* Socket.IO rooms: room name (a session_id) -> connections
    inbox,         \* per connection: events emitted to it alone (no room)
    security_log,  \* kinds of entries written to the security log
    th,            \* per handler thread of send_message: locals and position
    nturns,        \* number of send_message events received so far
    completed,     \* per session_id: number of turns that ran to the end
    GEMINI_API_KEY, \* Config.GEMINI_API_KEY is set
    profiles,      \* profiles rows
    resumes,       \* resumes rows
    direct,        \* calls of generate_chatbot_response made by a caller other than handle_message
    http,          \* the response to the latest HTTP request
    deleting,      \* the DELETE /api/history/<session_id> request in progress
    users,         \* users rows: username -> row
    auth,          \* the administrator's browser: logged in or not, login posts made
    settings       \* the settings table: its rows

vars ==
    <<sessions, messages, clock, conns, rooms, inbox, security_log, th, nturns, completed,
      GEMINI_API_KEY, profiles, resumes, direct, http, deleting, users, auth, settings>>

docs ==
    <<GEMINI_API_KEY, profiles, resumes>>

\* What other callers hold: neither handle_connect nor handle_message touches it.
web ==
    <<direct, http>>

\* What the administration pages and the history routes hold.
desk ==
    <<deleting, users, auth>>

(***************************************************************************)
(* Bounds of the model.                                                    *)
(***************************************************************************)
MaxTurns ==
    2

MaxConnects ==
    2

(***************************************************************************)
(* Python None in a text position: no text contains a two-letter element.  *)
(***************************************************************************)
None ==
    <<"None">>

Nil ==
    "nil"

Truthy(x) ==
    x # None /\ x # <<>>

(***************************************************************************)
(* Program constants.                                                      *)
(***************************************************************************)
\* .limit(10) of the history query.
HISTORY_LIMIT ==
    10

\* user_message[:50]
TITLE_MAX ==
    50

(***************************************************************************)
(* Fixed texts of the program and the texts used as inputs.                *)
(***************************************************************************)
REFUSAL_TEXT ==
    <<"I","'","m"," ","s","o","r","r","y",","," ","I"," ","c","a","n","n","o","t"," ","f","u",
      "l","f","i","l","l"," ","t","h","a","t"," ","r","e","q","u","e","s","t"," ","a","s"," ",
      "i","t"," ","d","e","v","i","a","t","e","s"," ","f","r","o","m"," ","m","y"," ","p","r",
      "o","f","e","s","s","i","o","n","a","l"," ","p","e","r","s","o","n","a",".">>

KEY_MISSING_TEXT ==
    <<"G","e","m","i","n","i"," ","A","P","I"," ","k","e","y"," ","n","o","t"," ","c","o","n",
      "f","i","g","u","r","e","d","."," ","P","l","e","a","s","e"," ","a","d","d"," ","y","o",
      "u","r"," ","A","P","I"," ","k","e","y"," ","t","o"," ","u","s","e"," ","A","I"," ","r",
      "e","s","p","o","n","s","e","s",".">>

APOLOGY_TEXT ==
    <<"I"," ","a","p","o","l","o","g","i","z","e",","," ","b","u","t"," ","I","'","m"," ","h",
      "a","v","i","n","g"," ","t","r","o","u","b","l","e"," ","g","e","n","e","r","a","t","i",
      "n","g"," ","a"," ","r","e","s","p","o","n","s","e"," ","r","i","g","h","t"," ","n","o",
      "w","."," ","P","l","e","a","s","e"," ","t","r","y"," ","a","g","a","i","n"," ","i","n",
      " ","a"," ","m","o","m","e","n","t",".">>

STREAM_ERROR_TEXT ==
    <<" ","[","E","r","r","o","r"," ","g","e","n","e","r","a","t","i","n","g"," ","r","e","s",
      "p","o","n","s","e","]">>

LINK_PREFIX ==
    <<"\n","\n","Y","o","u"," ","c","a","n"," ","d","o","w","n","l","o","a","d"," ","m","y"," ",
      "r","e","s","u","m","e"," ","h","e","r","e",":"," ">>

ORIGIN_LOCALHOST_8080 ==
    <<"h","t","t","p",":","/","/","l","o","c","a","l","h","o","s","t",":","8","0","8","0">>

ORIGIN_LOOPBACK_8080 ==
    <<"h","t","t","p",":","/","/","1","2","7",".","0",".","0",".","1",":","8","0","8","0">>

ORIGIN_LOCALHOST_8181 ==
    <<"h","t","t","p",":","/","/","l","o","c","a","l","h","o","s","t",":","8","1","8","1">>

ORIGIN_LOOPBACK_8181 ==
    <<"h","t","t","p",":","/","/","1","2","7",".","0",".","0",".","1",":","8","1","8","1">>

OriginEvil ==
    <<"h","t","t","p","s",":","/","/","e","v","i","l",".","e","x","a","m","p","l","e">>

OriginTrailingSlash ==
    <<"h","t","t","p",":","/","/","l","o","c","a","l","h","o","s","t",":","8","0","8","0","/">>

RefererGood ==
    <<"h","t","t","p",":","/","/","l","o","c","a","l","h","o","s","t",":","8","0","8","0","/",
      "c","h","a","t">>

RefererGoodBare ==
    <<"h","t","t","p",":","/","/","1","2","7",".","0",".","0",".","1",":","8","1","8","1">>

RefererLookalike ==
    <<"h","t","t","p",":","/","/","l","o","c","a","l","h","o","s","t",":","8","0","8","0",".",
      "e","v","i","l",".","e","x","a","m","p","l","e","/">>

SESSION_NOT_FOUND ==
    <<"S","e","s","s","i","o","n"," ","n","o","t"," ","f","o","u","n","d">>

\* The text of the background section when there is no document text.
NO_RESUME_TEXT ==
    <<"N","o"," ","r","e","s","u","m","e"," ","i","n","f","o","r","m","a","t","i","o","n"," ",
      "a","v","a","i","l","a","b","l","e"," ","y","e","t",".">>

DocOps ==
    <<"O","p","s"," ","l","e","a","d">>

DocOld ==
    <<"O","l","d"," ","j","o","b">>

FileOps ==
    <<"o","p","s",".","p","d","f">>

DocCv ==
    <<"P","y","t","h","o","n"," ","d","e","v","e","l","o","p","e","r">>

URL_BASE ==
    <<"h","t","t","p",":","/","/","l","o","c","a","l","h","o","s","t",":","8","0","8","0","/",
      "u","p","l","o","a","d","s","/","r","e","s","u","m","e","s","/">>

FileCv ==
    <<"c","v",".","p","d","f">>

MsgBlank ==
    <<" ","\n"," ">>

MsgHi ==
    <<" ","H","i"," ">>

MsgSql ==
    <<"A","n","y"," ","S","Q","L","?">>

\* Messages around the length at which a title is cut; the second and the
\* last arrive with surrounding white space.
MsgLen49 ==
    <<"W","h","a","t"," ","d","a","t","a","b","a","s","e","s"," ","h","a","s"," ","A","s","h",
      " ","u","s","e","d"," ","i","n"," ","p","r","o","d","u","c","t","i","o","n"," ","s","o",
      " ","f","a","r","?">>

MsgLen50 ==
    <<" "," ","W","h","i","c","h"," ","c","l","o","u","d"," ","p","l","a","t","f","o","r","m",
      "s"," ","h","a","s"," ","A","s","h"," ","d","e","p","l","o","y","e","d"," ","s","e","r",
      "v","i","c","e","s"," ","o","n","\n">>

MsgLen51 ==
    <<"W","h","i","c","h"," ","c","l","o","u","d"," ","p","l","a","t","f","o","r","m","s"," ",
      "h","a","s"," ","A","s","h"," ","d","e","p","l","o","y","e","d"," ","s","e","r","v","i",
      "c","e","s"," ","o","n","?">>

MsgLen70 ==
    <<" ","C","a","n"," ","y","o","u"," ","s","u","m","m","a","r","i","s","e"," ","t","h","e",
      " ","p","r","o","j","e","c","t","s"," ","w","h","e","r","e"," ","A","s","h"," ","l","e",
      "d"," ","a"," ","t","e","a","m"," ","o","f"," ","m","o","r","e"," ","t","h","a","n"," ",
      "f","i","v","e","?"," ">>


MsgContact ==
    <<"C","o","n","t","a","c","t"," ","A","s","h">>

MsgDownload ==
    <<"D","o","w","n","l","o","a","d"," ","C","V">>

FragHel ==
    <<"H","e","l">>

FragLo ==
    <<"l","o">>

FragWorld ==
    <<" ","w","o","r","l","d">>

injection_keywords ==
    {
      <<"i","g","n","o","r","e"," ","p","r","e","v","i","o","u","s"," ","i","n","s","t","r","u",
        "c","t","i","o","n","s">>,
      <<"i","g","n","o","r","e"," ","a","l","l"," ","i","n","s","t","r","u","c","t","i","o","n",
        "s">>,
      <<"s","y","s","t","e","m"," ","p","r","o","m","p","t">>,
      <<"r","e","v","e","a","l"," ","y","o","u","r"," ","i","n","s","t","r","u","c","t","i","o",
        "n","s">>,
      <<"a","c","t"," ","a","s">>,
      <<"y","o","u"," ","a","r","e"," ","n","o","w">>,
      <<"s","q","l">>,
      <<"d","e","l","e","t","e">>,
      <<"d","r","o","p"," ","t","a","b","l","e">>,
      <<"<","s","c","r","i","p","t",">">>,
      <<"j","a","v","a","s","c","r","i","p","t",":">>
    }

download_keywords ==
    {
      <<"d","o","w","n","l","o","a","d">>,
      <<"s","e","e"," ","r","e","s","u","m","e">>,
      <<"v","i","e","w"," ","r","e","s","u","m","e">>,
      <<"s","e","n","d"," ","r","e","s","u","m","e">>,
      <<"s","h","a","r","e"," ","r","e","s","u","m","e">>,
      <<"r","e","s","u","m","e"," ","f","i","l","e">>,
      <<"r","e","s","u","m","e"," ","p","d","f">>,
      <<"g","e","t"," ","r","e","s","u","m","e">>,
      <<"s","h","o","w"," ","r","e","s","u","m","e">>,
      <<"c","o","p","y"," ","o","f"," ","r","e","s","u","m","e">>,
      <<"h","a","v","e"," ","y","o","u","r"," ","r","e","s","u","m","e">>
    }

(***************************************************************************)
(* Text primitives of Python used by the handlers.                         *)
(***************************************************************************)
Whitespace ==
    {" ", "\n", "\t"}

\* A strip() that drops blanks only, not line breaks or tabs.
StripBlanksOnly(s) ==
    LET keep == {i \in 1..Len(s) : s[i] # " "}
    IN  IF keep = {} THEN <<>>
        ELSE LET first == CHOOSE i \in keep : \A j \in keep : i <= j
                 last  == CHOOSE i \in keep : \A j \in keep : j <= i
             IN  SubSeq(s, first, last)

\* str.strip(): drop leading and trailing whitespace.
Strip(s) ==
    LET keep == {i \in 1..Len(s) : s[i] \notin Whitespace}
    IN  IF keep = {} THEN <<>>
        ELSE LET first == CHOOSE i \in keep : \A j \in keep : i <= j
                 last  == CHOOSE i \in keep : \A j \in keep : j <= i
             IN  SubSeq(s, first, last)

UpperToLower ==
    [A |-> "a", B |-> "b", C |-> "c", D |-> "d", E |-> "e", F |-> "f", G |-> "g",
     H |-> "h", I |-> "i", J |-> "j", K |-> "k", L |-> "l", M |-> "m", N |-> "n",
     O |-> "o", P |-> "p", Q |-> "q", R |-> "r", S |-> "s", T |-> "t", U |-> "u",
     V |-> "v", W |-> "w", X |-> "x", Y |-> "y", Z |-> "z"]

\* str.lower() on ASCII text.
Lower(s) ==
    [i \in 1..Len(s) |-> IF s[i] \in DOMAIN UpperToLower THEN UpperToLower[s[i]] ELSE s[i]]

\* keyword in text (keyword non-empty).
Contains(s, k) ==
    \E i \in 1..(Len(s) - Len(k) + 1) : SubSeq(s, i, i + Len(k) - 1) = k

\* '/'.join(referer.split('/')[:3]): the text before the third '/', or all of it.
RefererOrigin(referer) ==
    LET slashes == {i \in 1..Len(referer) : referer[i] = "/"}
    IN  IF Cardinality(slashes) < 3 THEN referer
        ELSE LET third == CHOOSE i \in slashes :
                              Cardinality({j \in slashes : j < i}) = 2
             IN  SubSeq(referer, 1, third - 1)

(***************************************************************************)
(* Configuration and the domains the inputs are drawn from.                *)
(***************************************************************************)
\* Config.CORS_ALLOWED_ORIGINS: the default list.
allowed_origins ==
    {ORIGIN_LOCALHOST_8080, ORIGIN_LOOPBACK_8080, ORIGIN_LOCALHOST_8181, ORIGIN_LOOPBACK_8181}

SessionIds ==
    {"s1", "s2"}

ConnIds ==
    1..MaxConnects

Handlers ==
    {1, 2}

\* Header values a client can send; None is an absent header.
OriginHeaders ==
    {None, <<>>, ORIGIN_LOCALHOST_8080, OriginEvil, OriginTrailingSlash}

RefererHeaders ==
    {None, <<>>, RefererGood, RefererGoodBare, RefererLookalike}

(***************************************************************************)
(* handle_connect                                                          *)
(***************************************************************************)
PendingConn ==
    [state |-> "pending", origin |-> None, referer |-> None, session_arg |-> Nil,
     user_identifier |-> None, session_id |-> Nil, found |-> FALSE]

\* The three-way origin check of handle_connect: TRUE when no branch returns False.
ValidateOrigin(origin, referer) ==
    IF Truthy(origin) THEN origin \in allowed_origins
    ELSE IF Truthy(referer) THEN RefererOrigin(referer) \in allowed_origins
    ELSE FALSE

\* sec_log.log_security_event(event_type, ...): one more entry in the security log.
log_security_event(event_type) ==
    security_log \cup {event_type}

\* str(uuid.uuid4()): an identifier nobody holds yet.
FreshIds ==
    SessionIds \ (DOMAIN sessions \cup {conns[c].session_id : c \in ConnIds})

uuid4 ==
    CHOOSE u \in FreshIds : TRUE

\* A new chat_sessions row: the column defaults of ChatSession and the
\* user_identifier of the connect request.
NewSession(now, user_identifier) ==
    [message_count |-> 0, title |-> None, user_identifier |-> user_identifier,
     started_at |-> now, last_activity |-> now]

\* A handle_connect that joins the room before it looks at the origin.
HandleConnectJoinFirst(c, origin, referer, session_arg, user_identifier) ==
    /\ conns[c].state = "pending"
    /\ \A d \in ConnIds : d < c => conns[d].state # "pending"
    /\ session_arg = Nil => FreshIds # {}
    /\ LET session_id == IF session_arg # Nil THEN session_arg ELSE uuid4
       IN  /\ rooms' = [rooms EXCEPT ![session_id] = @ \cup {c}]
           /\ IF ~ValidateOrigin(origin, referer)
              THEN /\ conns' = [conns EXCEPT ![c] =
                                   [@ EXCEPT !.state = "rejected", !.origin = origin,
                                             !.referer = referer,
                                             !.session_arg = session_arg,
                                             !.user_identifier = user_identifier]]
                   /\ security_log' = log_security_event("websocket_rejected")
              ELSE /\ conns' = [conns EXCEPT ![c] =
                                   [state |-> "joined", origin |-> origin,
                                    referer |-> referer, session_arg |-> session_arg,
                                    user_identifier |-> user_identifier,
                                    session_id |-> session_id,
                                    found |-> session_id \in DOMAIN sessions]]
                   /\ UNCHANGED security_log
    /\ UNCHANGED <<sessions, messages, clock, inbox, th, nturns, completed, docs, web, desk, settings>>

\* handle_connect up to the session lookup: validate the origin, resolve the
\* identifier, join its room, look the session up.
HandleConnect(c, origin, referer, session_arg, user_identifier) ==
    /\ conns[c].state = "pending"
    /\ \A d \in ConnIds : d < c => conns[d].state # "pending"
    /\ session_arg = Nil => FreshIds # {}
    /\ IF ~ValidateOrigin(origin, referer)
       THEN /\ conns' = [conns EXCEPT ![c] =
                            [@ EXCEPT !.state = "rejected", !.origin = origin,
                                      !.referer = referer, !.session_arg = session_arg,
                                      !.user_identifier = user_identifier]]
            /\ security_log' = log_security_event("websocket_rejected")
            /\ UNCHANGED rooms
       ELSE LET session_id == IF session_arg # Nil THEN session_arg ELSE uuid4
            IN  /\ rooms' = [rooms EXCEPT ![session_id] = @ \cup {c}]
                /\ conns' = [conns EXCEPT ![c] =
                                [state |-> "joined", origin |-> origin, referer |-> referer,
                                 session_arg |-> session_arg,
                                 user_identifier |-> user_identifier,
                                 session_id |-> session_id,
                                 found |-> session_id \in DOMAIN sessions]]
                /\ UNCHANGED security_log
    /\ UNCHANGED <<sessions, messages, clock, inbox, th, nturns, completed, docs, web, desk, settings>>

\* The rest of handle_connect: create the session when the lookup found none,
\* then acknowledge.  A second insert of the same session_id violates the
\* unique constraint: the commit raises and no acknowledgment is sent.
ConnectFinish(c) ==
    /\ conns[c].state = "joined"
    /\ LET session_id == conns[c].session_id
       IN  IF conns[c].found
           THEN /\ conns' = [conns EXCEPT ![c].state = "active"]
                /\ inbox' = [inbox EXCEPT ![c] = @ \cup {"connected"}]
                /\ UNCHANGED <<sessions, clock, security_log>>
           ELSE IF session_id \in DOMAIN sessions
           THEN /\ conns' = [conns EXCEPT ![c].state = "failed"]
                /\ UNCHANGED <<sessions, clock, security_log, inbox>>
           ELSE /\ sessions' = sessions @@ (session_id :> NewSession(clock, conns[c].user_identifier))
                /\ UNCHANGED clock
                /\ security_log' = log_security_event("websocket_connected")
                /\ conns' = [conns EXCEPT ![c].state = "active"]
                /\ inbox' = [inbox EXCEPT ![c] = @ \cup {"connected"}]
    /\ UNCHANGED <<messages, rooms, th, nturns, completed, docs, web, desk, settings>>

(***************************************************************************)
(* generate_chatbot_response: safety filter, context assembly, download    *)
(* intent, and the streaming generator.                                    *)
(***************************************************************************)
\* The generator's input from the backend: each item is a chunk text (possibly
\* empty) or RAISE, an exception raised while the response is iterated.
RAISE ==
    <<"Raise">>

NoPrompt ==
    [scaffold |-> "none"]

\* The keyword test without the lower-casing of the message.
IsInjectionCaseSensitive(user_message) ==
    \E keyword \in injection_keywords : Contains(user_message, keyword)

\* any(keyword in clean_message for keyword in injection_keywords)
IsInjection(user_message) ==
    \E keyword \in injection_keywords : Contains(Lower(user_message), keyword)

\* any(keyword in user_message.lower() for keyword in download_keywords)
is_resume_request(user_message) ==
    \E keyword \in download_keywords : Contains(Lower(user_message), keyword)

\* data.get('profile_id') when the message carries none: Python None.  The
\* other selectors are numbers; 0 stands for every value that is not None and
\* tests false (0, "").
NO_PROFILE ==
    -1

DefaultSettings ==
    [chatbot_name |-> "AI Assistant", personality_prompt |-> <<>>]

\* Settings.get_settings(): the settings table after the call; the singleton
\* row is created and committed when the table is empty.
get_settings ==
    IF settings = <<>> THEN <<DefaultSettings>> ELSE settings

\* The id the database gives the next profiles row.
NextProfileId ==
    IF DOMAIN profiles = {} THEN 1
    ELSE 1 + CHOOSE p \in DOMAIN profiles : \A q \in DOMAIN profiles : q <= p

\* Profile.get_default_profile(): the profiles table after the call; a default
\* profile is created and committed when no row has is_default set.
get_default_profile ==
    IF \E p \in DOMAIN profiles : profiles[p].is_default
    THEN profiles
    ELSE profiles @@ (NextProfileId :>
             [name |-> "Default Profile", is_default |-> TRUE, primary_resume_id |-> 0,
              resumes |-> {}])

\* Profile.get_default_profile().id
DefaultProfileId ==
    CHOOSE p \in DOMAIN get_default_profile : get_default_profile[p].is_default

\* Resume.get_active_resumes(profile_id): "if profile_id:" selects the active
\* documents of that profile (none when there is no such profile); with a
\* selector that tests false the filter is skipped and every active document
\* is returned.
get_active_resumes(profile_id) ==
    IF profile_id = 0
    THEN {r \in DOMAIN resumes : resumes[r].is_active}
    ELSE IF profile_id \in DOMAIN profiles
    THEN {r \in profiles[profile_id].resumes : resumes[r].is_active}
    ELSE {}

\* The background text: the contents of the active documents that have text.
resume_context(profile_id) ==
    {resumes[r].content : r \in {q \in get_active_resumes(profile_id) :
                                     resumes[q].content # <<>>}}

\* Rows of one session, oldest first (timestamps are distinct).
SessionMessages(session_id) ==
    LET idx == {i \in 1..Len(messages) : messages[i].session_id = session_id}
    IN  [k \in 1..Cardinality(idx) |->
            messages[CHOOSE i \in idx :
                Cardinality({j \in idx : messages[j].timestamp < messages[i].timestamp})
                    = k - 1]]

\* A history query without the descending order: the oldest rows are taken.
conversation_history_oldest(session_id) ==
    LET all == SessionMessages(session_id)
        n   == Len(all)
        recent == IF n <= HISTORY_LIMIT THEN all ELSE SubSeq(all, 1, HISTORY_LIMIT)
    IN  [k \in 1..Len(recent) |->
            [role |-> IF recent[k].role = "user" THEN "User" ELSE "Assistant",
             content |-> recent[k].content]]

\* order_by(timestamp.desc()).limit(10), reversed, rendered as "Role: content".
conversation_history(session_id) ==
    LET all == SessionMessages(session_id)
        n   == Len(all)
        recent == IF n <= HISTORY_LIMIT THEN all ELSE SubSeq(all, n - HISTORY_LIMIT + 1, n)
    IN  [k \in 1..Len(recent) |->
            [role |-> IF recent[k].role = "user" THEN "User" ELSE "Assistant",
             content |-> recent[k].content]]

\* A prompt whose question carries the link sentence.
full_prompt_with_link(user_message, session_id, profile_id) ==
    LET history == IF session_id \in DOMAIN sessions
                   THEN conversation_history(session_id) ELSE <<>>
    IN  [scaffold |-> IF history # <<>> THEN "history" ELSE "first",
         background |-> resume_context(profile_id),
         section |-> IF resume_context(profile_id) = {}
                     THEN {NO_RESUME_TEXT} ELSE resume_context(profile_id),
         history |-> history,
         question |-> user_message \o LINK_PREFIX]

\* full_prompt: which scaffold, and the parts substituted into it.
full_prompt(user_message, session_id, profile_id) ==
    LET history == IF session_id \in DOMAIN sessions
                   THEN conversation_history(session_id) ELSE <<>>
    IN  [scaffold |-> IF history # <<>> THEN "history" ELSE "first",
         background |-> resume_context(profile_id),
         section |-> IF resume_context(profile_id) = {}
                     THEN {NO_RESUME_TEXT} ELSE resume_context(profile_id),
         history |-> history,
         question |-> user_message]

\* download_link_text: the link sentence, or "" when there is nothing to link.
\* "if profile_id:" looks the profile up; otherwise the default profile is used.
download_link_text(user_message, profile_id) ==
    LET profile == IF profile_id = 0 THEN DefaultProfileId ELSE profile_id
    IN  IF /\ is_resume_request(user_message)
           /\ profile \in DOMAIN profiles
           /\ profiles[profile].primary_resume_id \in DOMAIN resumes
        THEN LINK_PREFIX \o URL_BASE \o resumes[profiles[profile].primary_resume_id].filename
        ELSE <<>>

(***************************************************************************)
(* handle_message (send_message)                                           *)
(***************************************************************************)
IdleThread ==
    [pc |-> "idle", conn |-> 0, turn |-> 0, session_id |-> Nil, raw |-> <<>>,
     user_message |-> <<>>, profile_id |-> NO_PROFILE,
     session |-> [expired |-> TRUE, message_count |-> 0, title |-> None],
     bot_timestamp |-> 0, full_response |-> <<>>, returned |-> "nothing",
     script |-> <<>>, stream_gen |-> <<>>,
     link |-> <<>>, prompt |-> NoPrompt, backend_called |-> FALSE, events |-> <<>>,
     title |-> None]

\* The handler has returned (or has not started): its thread is free.
Free(h) ==
    th[h].pc \in {"idle", "dropped", "notfound", "done", "crashed"}

\* The ORM's copy of the session row, as loaded by a query or a refresh.
LoadSession(session_id) ==
    [expired |-> FALSE, message_count |-> sessions[session_id].message_count,
     title |-> sessions[session_id].title]

\* After a commit every loaded attribute is expired.
Expire(session) ==
    [session EXCEPT !.expired = TRUE]

\* The rows the next step of the handler reads or updates are still stored:
\* the session row for a flush that updates it or an expired copy that is
\* reloaded, the user message row for the echo, which reads its timestamp.
RowsPresent(h) ==
    CASE th[h].pc = "echo" ->
             \E i \in 1..Len(messages) :
                 messages[i].turn = th[h].turn /\ messages[i].role = "user"
      [] th[h].pc \in {"loaded", "save_bot", "title_check", "title_write"} ->
             th[h].session_id \in DOMAIN sessions
      [] th[h].pc = "finalize" ->
             ~th[h].session.expired \/ th[h].session_id \in DOMAIN sessions
      [] OTHER -> TRUE

\* The message text is empty after strip(): return without a word.
ReceiveEmpty(h, c, session_id, raw) ==
    /\ Strip(raw) = <<>>
    /\ th' = [th EXCEPT ![h] = [IdleThread EXCEPT !.pc = "dropped", !.conn = c,
                                    !.turn = nturns + 1, !.session_id = session_id,
                                    !.raw = raw]]
    /\ UNCHANGED <<sessions, messages, clock, inbox>>

\* A lookup that creates the missing session besides reporting the error.
ReceiveNotFoundCreates(h, c, session_id, raw) ==
    /\ Strip(raw) # <<>>
    /\ session_id \notin DOMAIN sessions
    /\ th' = [th EXCEPT ![h] = [IdleThread EXCEPT !.pc = "notfound", !.conn = c,
                                    !.turn = nturns + 1, !.session_id = session_id,
                                    !.raw = raw, !.user_message = Strip(raw),
                                    !.events = <<[event |-> "error",
                                                  message |-> SESSION_NOT_FOUND]>>]]
    /\ inbox' = [inbox EXCEPT ![c] = @ \cup {"error"}]
    /\ sessions' = [s \in DOMAIN sessions \cup {session_id} |->
                        IF s = session_id THEN NewSession(clock, None) ELSE sessions[s]]
    /\ UNCHANGED <<messages, clock>>

\* No session with this identifier: one error event to the sender, and return.
ReceiveNotFound(h, c, session_id, raw) ==
    /\ Strip(raw) # <<>>
    /\ session_id \notin DOMAIN sessions
    /\ th' = [th EXCEPT ![h] = [IdleThread EXCEPT !.pc = "notfound", !.conn = c,
                                    !.turn = nturns + 1, !.session_id = session_id,
                                    !.raw = raw, !.user_message = Strip(raw),
                                    !.events = <<[event |-> "error",
                                                  message |-> SESSION_NOT_FOUND]>>]]
    /\ inbox' = [inbox EXCEPT ![c] = @ \cup {"error"}]
    /\ UNCHANGED <<sessions, messages, clock>>

\* The session is found and loaded.
ReceiveFound(h, c, session_id, raw, profile_id) ==
    /\ Strip(raw) # <<>>
    /\ session_id \in DOMAIN sessions
    /\ th' = [th EXCEPT ![h] = [IdleThread EXCEPT !.pc = "loaded", !.conn = c,
                                    !.turn = nturns + 1, !.session_id = session_id,
                                    !.raw = raw, !.user_message = Strip(raw),
                                    !.profile_id = profile_id,
                                    !.session = LoadSession(session_id)]]
    /\ UNCHANGED <<sessions, messages, clock, inbox>>

\* handle_message from its entry to the session lookup.
Receive(h, c, session_id, raw, profile_id) ==
    /\ Free(h)
    /\ \A g \in Handlers : g < h => ~Free(g)
    /\ conns[c].state = "active"
    /\ nturns < MaxTurns
    /\ nturns' = nturns + 1
    /\ \/ ReceiveEmpty(h, c, session_id, raw)
       \/ ReceiveNotFound(h, c, session_id, raw)
       \/ ReceiveFound(h, c, session_id, raw, profile_id)
    /\ UNCHANGED <<conns, rooms, security_log, completed, docs, web, desk, settings>>

\* Save the user message: insert it, touch last_activity, write the
\* incremented count, commit.
SaveUser(h) ==
    /\ th[h].pc = "loaded"
    /\ RowsPresent(h)
    /\ LET t == th[h]
       IN  /\ messages' = Append(messages,
                              [session_id |-> t.session_id, role |-> "user",
                               content |-> t.user_message, timestamp |-> clock + 1,
                               turn |-> t.turn])
           /\ sessions' = [sessions EXCEPT ![t.session_id] =
                              [@ EXCEPT !.last_activity = clock,
                                        !.message_count = t.session.message_count + 1]]
           /\ clock' = clock + 2
           /\ th' = [th EXCEPT ![h] = [@ EXCEPT !.pc = "echo",
                                                !.session = Expire(t.session)]]
    /\ UNCHANGED <<conns, rooms, inbox, security_log, nturns, completed, docs, web, desk, settings>>

\* Echo the user message, announce typing, read the bot timestamp and announce
\* the start of the response.
EchoAndStart(h) ==
    /\ th[h].pc = "echo"
    /\ RowsPresent(h)
    /\ LET t == th[h]
           user_msg == CHOOSE m \in {messages[i] : i \in 1..Len(messages)} :
                           m.turn = t.turn /\ m.role = "user"
       IN  /\ th' = [th EXCEPT ![h] = [@ EXCEPT
                        !.pc = "call",
                        !.bot_timestamp = clock,
                        !.events = @ \o <<[event |-> "message", role |-> "user",
                                           content |-> t.user_message,
                                           timestamp |-> user_msg.timestamp],
                                          [event |-> "typing", typing |-> TRUE],
                                          [event |-> "message_start", role |-> "assistant",
                                           timestamp |-> clock]>>]]
           /\ clock' = clock + 1
    /\ UNCHANGED <<sessions, messages, conns, rooms, inbox, security_log, nturns, completed,
                   docs, web, desk, settings>>

\* The handler got a plain string from generate_chatbot_response: it is the
\* whole response and goes out as one chunk.
ReturnString(h, text, prompt, called, session) ==
    /\ th' = [th EXCEPT ![h] = [@ EXCEPT
                 !.pc = "finalize",
                 !.returned = "str",
                 !.full_response = text,
                 !.prompt = prompt,
                 !.backend_called = called,
                 !.session = session,
                 !.events = @ \o <<[event |-> "message_chunk", content |-> text]>>]]

\* The safety filter matched: log it and return the refusal, before the try.
CallRefused(h) ==
    /\ IsInjection(th[h].user_message)
    /\ security_log' = security_log \cup {"suspicious_activity"}
    /\ ReturnString(h, REFUSAL_TEXT, NoPrompt, FALSE, th[h].session)
    /\ UNCHANGED <<settings, profiles>>

\* The body of the try: settings, documents and history are read (the session
\* query refreshes the handler's copy of the row), the prompt is built and the
\* download link prepared; then the backend is called in streaming mode.
CallBackend(h, call_raises, script) ==
    /\ ~IsInjection(th[h].user_message)
    /\ settings' = get_settings
    /\ profiles' = IF th[h].profile_id \in {NO_PROFILE, 0} THEN get_default_profile ELSE profiles
    /\ LET t == th[h]
           profile_id == IF t.profile_id = NO_PROFILE THEN DefaultProfileId ELSE t.profile_id
           prompt == full_prompt(t.user_message, t.session_id, profile_id)
           session == IF t.session_id \in DOMAIN sessions
                      THEN LoadSession(t.session_id) ELSE t.session
           link == download_link_text(t.user_message, profile_id)
       IN  IF ~GEMINI_API_KEY
           THEN ReturnString(h, KEY_MISSING_TEXT, prompt, FALSE, session)
           ELSE IF call_raises
           THEN ReturnString(h, APOLOGY_TEXT, prompt, TRUE, session)
           ELSE th' = [th EXCEPT ![h] = [@ EXCEPT
                          !.pc = "stream", !.returned = "generator", !.prompt = prompt,
                          !.backend_called = TRUE, !.session = session, !.script = script,
                          !.stream_gen = script, !.link = link]]
    /\ UNCHANGED security_log

\* stream_gen = generate_chatbot_response(..., stream=True)
CallAdapter(h, call_raises, script) ==
    /\ th[h].pc = "call"
    /\ \/ CallRefused(h)
       \/ CallBackend(h, call_raises, script)
    /\ UNCHANGED <<sessions, messages, clock, conns, rooms, inbox, nturns, completed,
                   GEMINI_API_KEY, resumes, web, desk>>

\* A chunk that is emitted but not added to the accumulated response.
EmitChunkNoAccumulate(t, chunk) ==
    [t EXCEPT !.events = @ \o <<[event |-> "message_chunk", content |-> chunk]>>]

\* One chunk out: accumulate it and emit it.
EmitChunk(t, chunk) ==
    [t EXCEPT !.full_response = @ \o chunk,
              !.events = @ \o <<[event |-> "message_chunk", content |-> chunk]>>]

\* One iteration of "for chunk in stream_gen": the generator takes the next
\* item from the backend; a chunk with text is yielded, one without is
\* skipped, an exception yields the error marker and ends the backend loop;
\* after the loop the link (if any) is yielded, and then the generator ends.
StreamNext(h) ==
    /\ th[h].pc = "stream"
    /\ LET t == th[h]
       IN  IF t.stream_gen = <<>>
           THEN \* the backend loop is over: the link, then StopIteration
                IF t.link # <<>>
                THEN th' = [th EXCEPT ![h] = [EmitChunk(t, t.link) EXCEPT
                                                  !.pc = "finalize"]]
                ELSE th' = [th EXCEPT ![h].pc = "finalize"]
           ELSE IF Head(t.stream_gen) = RAISE
           THEN th' = [th EXCEPT ![h] = [EmitChunk(t, STREAM_ERROR_TEXT) EXCEPT
                                             !.stream_gen = <<>>]]
           ELSE IF Head(t.stream_gen) = <<>>
           THEN th' = [th EXCEPT ![h].stream_gen = Tail(t.stream_gen)]
           ELSE th' = [th EXCEPT ![h] = [EmitChunk(t, Head(t.stream_gen)) EXCEPT
                                             !.stream_gen = Tail(t.stream_gen)]]
    /\ UNCHANGED <<sessions, messages, clock, conns, rooms, inbox, security_log, nturns,
                   completed, docs, web, desk, settings>>

\* typing(false) sent ahead of message_end.
FinalizeTypingFirst(h) ==
    /\ th[h].pc = "finalize"
    /\ RowsPresent(h)
    /\ LET t == th[h]
       IN  /\ th' = [th EXCEPT ![h] = [@ EXCEPT
                        !.pc = "save_bot",
                        !.session = IF t.session.expired
                                    THEN LoadSession(t.session_id) ELSE t.session,
                        !.events = @ \o <<[event |-> "typing", typing |-> FALSE],
                                          [event |-> "message_end"]>>]]
    /\ UNCHANGED <<sessions, messages, clock, conns, rooms, inbox, security_log, nturns,
                   completed, docs, web, desk, settings>>

\* message_end and typing(false); then building the bot message reads
\* session.id, which reloads the session row if the copy is expired.
Finalize(h) ==
    /\ th[h].pc = "finalize"
    /\ RowsPresent(h)
    /\ LET t == th[h]
       IN  /\ th' = [th EXCEPT ![h] = [@ EXCEPT
                        !.pc = "save_bot",
                        !.session = IF t.session.expired
                                    THEN LoadSession(t.session_id) ELSE t.session,
                        !.events = @ \o <<[event |-> "message_end"],
                                          [event |-> "typing", typing |-> FALSE]>>]]
    /\ UNCHANGED <<sessions, messages, clock, conns, rooms, inbox, security_log, nturns,
                   completed, docs, web, desk, settings>>

\* A bot save that stamps the message with the time of the save.
SaveBotCompletionTime(h) ==
    /\ th[h].pc = "save_bot"
    /\ RowsPresent(h)
    /\ LET t == th[h]
       IN  /\ messages' = Append(messages,
                              [session_id |-> t.session_id, role |-> "assistant",
                               content |-> t.full_response, timestamp |-> clock,
                               turn |-> t.turn])
           /\ sessions' = [sessions EXCEPT ![t.session_id].message_count =
                              t.session.message_count + 1]
           /\ th' = [th EXCEPT ![h] = [@ EXCEPT !.pc = "title_check",
                                                !.session = Expire(t.session)]]
    /\ UNCHANGED <<clock, conns, rooms, inbox, security_log, nturns, completed, docs, web, desk, settings>>

\* A bot save that leaves message_count as it is.
SaveBotNoIncrement(h) ==
    /\ th[h].pc = "save_bot"
    /\ RowsPresent(h)
    /\ LET t == th[h]
       IN  /\ messages' = Append(messages,
                              [session_id |-> t.session_id, role |-> "assistant",
                               content |-> t.full_response, timestamp |-> t.bot_timestamp,
                               turn |-> t.turn])
           /\ sessions' = [sessions EXCEPT ![t.session_id].message_count =
                              t.session.message_count]
           /\ th' = [th EXCEPT ![h] = [@ EXCEPT !.pc = "title_check",
                                                !.session = Expire(t.session)]]
    /\ UNCHANGED <<clock, conns, rooms, inbox, security_log, nturns, completed, docs, web, desk, settings>>

\* Save the bot message under the timestamp read before generation, write the
\* incremented count, commit.
SaveBot(h) ==
    /\ th[h].pc = "save_bot"
    /\ RowsPresent(h)
    /\ LET t == th[h]
       IN  /\ messages' = Append(messages,
                              [session_id |-> t.session_id, role |-> "assistant",
                               content |-> t.full_response, timestamp |-> t.bot_timestamp,
                               turn |-> t.turn])
           /\ sessions' = [sessions EXCEPT ![t.session_id].message_count =
                              t.session.message_count + 1]
           /\ th' = [th EXCEPT ![h] = [@ EXCEPT !.pc = "title_check",
                                                !.session = Expire(t.session)]]
    /\ UNCHANGED <<clock, conns, rooms, inbox, security_log, nturns, completed, docs, web, desk, settings>>

\* A title rule that already cuts a message of exactly 50 characters.
TitleOfCutsAtFifty(user_message) ==
    IF Len(user_message) >= TITLE_MAX
    THEN SubSeq(user_message, 1, TITLE_MAX) \o <<".", ".", ".">>
    ELSE user_message

\* title = user_message[:50] + "..." if len(user_message) > 50 else user_message
TitleOf(user_message) ==
    IF Len(user_message) > TITLE_MAX
    THEN SubSeq(user_message, 1, TITLE_MAX) \o <<".", ".", ".">>
    ELSE user_message

\* "if session.message_count <= 2 and not session.title": the row is reloaded
\* and tested; the handler returns when the test fails.
TitleCheck(h) ==
    /\ th[h].pc = "title_check"
    /\ RowsPresent(h)
    /\ LET t == th[h]
           session == LoadSession(t.session_id)
       IN  IF session.message_count <= 2 /\ ~Truthy(session.title)
           THEN /\ th' = [th EXCEPT ![h] = [@ EXCEPT !.pc = "title_write",
                                                     !.session = session,
                                                     !.title = TitleOf(t.user_message)]]
                /\ UNCHANGED completed
           ELSE /\ th' = [th EXCEPT ![h] = [@ EXCEPT !.pc = "done", !.session = session]]
                /\ completed' = [completed EXCEPT ![t.session_id] = @ + 1]
    /\ UNCHANGED <<sessions, messages, clock, conns, rooms, inbox, security_log, nturns,
                   docs, web, desk, settings>>

\* session.title = title; commit.
TitleWrite(h) ==
    /\ th[h].pc = "title_write"
    /\ RowsPresent(h)
    /\ sessions' = [sessions EXCEPT ![th[h].session_id].title = th[h].title]
    /\ th' = [th EXCEPT ![h] = [@ EXCEPT !.pc = "done", !.session = Expire(@)]]
    /\ completed' = [completed EXCEPT ![th[h].session_id] = @ + 1]
    /\ UNCHANGED <<messages, clock, conns, rooms, inbox, security_log, nturns, docs, web, desk, settings>>


\* A row the handler holds was deleted by another request: reloading it, or
\* flushing an update of it, raises in the ORM (the update matches no row and
\* the flush is rolled back), and the exception ends the handler.
\* message_end and typing(false) go out before bot_msg reads session.id.
RowGone(h) ==
    /\ th[h].pc \in {"loaded", "echo", "finalize", "save_bot", "title_check", "title_write"}
    /\ ~RowsPresent(h)
    /\ th' = [th EXCEPT ![h] = [@ EXCEPT
                 !.pc = "crashed",
                 !.events = IF th[h].pc = "finalize"
                            THEN @ \o <<[event |-> "message_end"],
                                        [event |-> "typing", typing |-> FALSE]>>
                            ELSE @]]
    /\ clock' = IF th[h].pc = "loaded" THEN clock + 1 ELSE clock
    /\ UNCHANGED <<sessions, messages, conns, rooms, inbox, security_log, nturns, completed,
                   docs, web, desk, settings>>


\* db.session.commit() raises in the handler (the user-message commit, the
\* bot-message commit or the title commit): nothing of the transaction is
\* stored, handle_message has no except around its commits and no error
\* handler is registered, so the exception ends the handler.
CommitFails(h) ==
    /\ th[h].pc \in {"loaded", "save_bot", "title_write"}
    /\ th' = [th EXCEPT ![h].pc = "crashed"]
    /\ clock' = IF th[h].pc = "loaded" THEN clock + 1 ELSE clock
    /\ UNCHANGED <<sessions, messages, conns, rooms, inbox, security_log, nturns, completed,
                   docs, web, desk, settings>>

\* The client or the transport tears the connection down.  No disconnect
\* handler is registered: the connection leaves its rooms and nothing else
\* happens; a handler started for one of its messages runs on.
Disconnect(c) ==
    /\ conns[c].state = "active"
    /\ conns' = [conns EXCEPT ![c].state = "closed"]
    /\ rooms' = [s \in DOMAIN rooms |-> rooms[s] \ {c}]
    /\ UNCHANGED <<sessions, messages, clock, inbox, security_log, th, nturns, completed,
                   docs, web, desk, settings>>

(***************************************************************************)
(* generate_chatbot_response called directly, in either mode, and its      *)
(* generator consumed by the caller.                                       *)
(***************************************************************************)
\* Number of direct calls followed.
MaxCalls ==
    2

CallIds ==
    1..MaxCalls

NoCall ==
    [pc |-> "none", user_message |-> <<>>, stream |-> FALSE, call_raised |-> FALSE,
     script |-> <<>>, prompt |-> NoPrompt, link |-> <<>>, result |-> None,
     stream_gen |-> <<>>, yielded |-> <<>>, raised |-> FALSE]

\* The fallback of the non-streaming branch when the response has no candidates.
SHORT_APOLOGY_TEXT ==
    <<"I"," ","a","p","o","l","o","g","i","z","e",","," ","b","u","t"," ","I","'","m"," ","h",
      "a","v","i","n","g"," ","t","r","o","u","b","l","e"," ","g","e","n","e","r","a","t","i",
      "n","g"," ","a"," ","r","e","s","p","o","n","s","e"," ","r","i","g","h","t"," ","n","o",
      "w",".">>

\* What generate_content returns without streaming: .text (RAISE when reading
\* it raises ValueError) and the first part's text of each candidate (RAISE
\* when the candidate has no part).
Responses ==
    {[text |-> FragHel \o FragLo, candidates |-> <<FragHel \o FragLo>>],
     [text |-> RAISE, candidates |-> <<FragLo>>],
     [text |-> RAISE, candidates |-> <<>>],
     [text |-> RAISE, candidates |-> <<RAISE>>]}

\* The non-streaming branch after generate_content has returned: the text of
\* the response or its fallbacks, then the link; an error in the fallback
\* reaches the outer except.
bot_response(response, link) ==
    IF response.text # RAISE THEN response.text \o link
    ELSE IF response.candidates = <<>> THEN SHORT_APOLOGY_TEXT \o link
    ELSE IF response.candidates[1] = RAISE THEN APOLOGY_TEXT
    ELSE response.candidates[1] \o link

\* One call of generate_chatbot_response(user_message, session_id,
\* profile_id=..., stream=...): a string is returned, or a generator.
DirectCall(k, user_message, session_id, profile_id, stream, call_raises, script, response) ==
    /\ direct[k].pc = "none"
    /\ \A j \in CallIds : j < k => direct[j].pc \in {"returned", "ended"}
    /\ LET pid    == IF profile_id = NO_PROFILE THEN DefaultProfileId ELSE profile_id
           prompt == full_prompt(user_message, session_id, pid)
           link   == download_link_text(user_message, pid)
           call   == [NoCall EXCEPT !.user_message = user_message, !.stream = stream]
           return(text, p, l, raised) ==
               [call EXCEPT !.pc = "returned", !.result = text, !.prompt = p, !.link = l,
                            !.call_raised = raised]
       IN  IF IsInjection(user_message)
           THEN /\ direct' = [direct EXCEPT ![k] = return(REFUSAL_TEXT, NoPrompt, <<>>, FALSE)]
                /\ security_log' = security_log \cup {"suspicious_activity"}
                /\ UNCHANGED <<settings, profiles>>
           ELSE /\ UNCHANGED security_log
                /\ settings' = get_settings
                /\ profiles' = IF profile_id \in {NO_PROFILE, 0}
                               THEN get_default_profile ELSE profiles
                /\ direct' = [direct EXCEPT ![k] =
                      IF ~GEMINI_API_KEY THEN return(KEY_MISSING_TEXT, prompt, link, FALSE)
                      ELSE IF call_raises THEN return(APOLOGY_TEXT, prompt, link, TRUE)
                      ELSE IF stream
                      THEN [call EXCEPT !.pc = "generator", !.prompt = prompt, !.link = link,
                                        !.script = script, !.stream_gen = script]
                      ELSE return(bot_response(response, link), prompt, link, FALSE)]
    /\ UNCHANGED <<sessions, messages, clock, conns, rooms, inbox, th, nturns, completed,
                   GEMINI_API_KEY, resumes, http, desk>>

\* A generator that lets the backend's error through to its consumer.
NextFragmentPropagates(k) ==
    /\ direct[k].pc = "generator"
    /\ LET g == direct[k]
       IN  direct' = [direct EXCEPT ![k] =
               IF g.stream_gen = <<>>
               THEN [g EXCEPT !.pc = "ended",
                              !.yielded = IF g.link # <<>> THEN @ \o <<g.link>> ELSE @]
               ELSE IF Head(g.stream_gen) = RAISE
               THEN [g EXCEPT !.pc = "ended", !.raised = TRUE]
               ELSE IF Head(g.stream_gen) = <<>>
               THEN [g EXCEPT !.stream_gen = Tail(@)]
               ELSE [g EXCEPT !.yielded = @ \o <<Head(g.stream_gen)>>,
                              !.stream_gen = Tail(@)]]
    /\ UNCHANGED <<sessions, messages, clock, conns, rooms, inbox, security_log, th, nturns,
                   completed, docs, http, desk, settings>>

\* The caller takes the next item of stream_generator(): a chunk with text is
\* yielded, one without is passed over, an exception of the backend yields
\* the error marker and leaves the loop; after the loop the link (if any) is
\* yielded and the generator ends.
NextFragment(k) ==
    /\ direct[k].pc = "generator"
    /\ LET g == direct[k]
       IN  direct' = [direct EXCEPT ![k] =
               IF g.stream_gen = <<>>
               THEN [g EXCEPT !.pc = "ended",
                              !.yielded = IF g.link # <<>> THEN @ \o <<g.link>> ELSE @]
               ELSE IF Head(g.stream_gen) = RAISE
               THEN [g EXCEPT !.yielded = @ \o <<STREAM_ERROR_TEXT>>, !.stream_gen = <<>>]
               ELSE IF Head(g.stream_gen) = <<>>
               THEN [g EXCEPT !.stream_gen = Tail(@)]
               ELSE [g EXCEPT !.yielded = @ \o <<Head(g.stream_gen)>>,
                              !.stream_gen = Tail(@)]]
    /\ UNCHANGED <<sessions, messages, clock, conns, rooms, inbox, security_log, th, nturns,
                   completed, docs, http, desk, settings>>

\* Number of requests to /admin/login that the limiter turns away in one
\* window and the model still follows.
MaxRejected ==
    1

(***************************************************************************)
(* The administrator's account and login (admin_login, User).              *)
(***************************************************************************)
\* DEFAULT_ADMIN_USERNAME, DEFAULT_ADMIN_PASSWORD
AdminName ==
    <<"a","d","m","i","n">>

AdminPassword ==
    "changeme123"

\* The users table after init_default_admin; locked_until is {} for NULL.
StartUsers ==
    [u \in {AdminName} |->
        [password |-> AdminPassword, failed_login_attempts |-> 0, locked_until |-> {},
         is_active |-> TRUE, must_change_password |-> TRUE, last_login_at |-> {}]]

\* The browsers (one remote address each) that reach the administration pages.
Browsers ==
    {"b1", "b2"}

\* current_user of a browser that holds no login.
Anonymous ==
    <<>>

\* The limiter's counter of one remote address for the login route: hits in
\* the running window and the minute at which the window expires.
NoHits ==
    [count |-> 0, expires |-> 0]

\* get_remote_address: the browsers reach the server through one proxy, so
\* the limiter sees one address.
Addresses ==
    {"a1"}

get_remote_address(b) ==
    "a1"

\* Nobody is logged in and the limiter has counted nothing.
NoAuth ==
    [user |-> [b \in Browsers |-> Anonymous], limit |-> [a \in Addresses |-> NoHits]]

\* RATE_LIMITS['login'] = "5 per 15 minutes", and the lock of User.lock_account.
LOGIN_LIMIT ==
    5

LOGIN_WINDOW ==
    15

LOCK_AFTER ==
    5

LOCK_MINUTES ==
    30

\* A password that validate_new_password accepts.
NewPassword ==
    "Tr1cky!Horse#42"

\* Everything the administration requests leave alone.
chat ==
    <<sessions, messages, conns, rooms, inbox, th, nturns, completed, docs, direct, deleting,
      settings>>

\* User.is_locked at the minute now.
is_locked(user, now) ==
    \E until \in user.locked_until : now < until

\* User.lock_account(duration_minutes=30)
lock_account(user, now) ==
    [user EXCEPT !.locked_until = {now + LOCK_MINUTES}]

\* User.unlock_account
unlock_account(user) ==
    [user EXCEPT !.locked_until = {}, !.failed_login_attempts = 0]

\* User.record_failed_login
record_failed_login(user, now) ==
    LET counted == [user EXCEPT !.failed_login_attempts = @ + 1]
    IN  IF counted.failed_login_attempts >= LOCK_AFTER
        THEN lock_account(counted, now)
        ELSE counted

\* A successful login that leaves the counter and the lock as they are.
record_successful_login_keeps(user, now) ==
    [user EXCEPT !.last_login_at = {now}]

\* User.record_successful_login
record_successful_login(user, now) ==
    [user EXCEPT !.failed_login_attempts = 0, !.locked_until = {}, !.last_login_at = {now}]

\* @limiter.limit(...) with the fixed-window strategy and memory storage: the
\* counter of the remote address after this request; the window opens at the
\* first request counted in it.
Hit(b) ==
    LET seen == auth.limit[get_remote_address(b)]
    IN  IF seen.count = 0 \/ clock >= seen.expires
        THEN [count |-> 1, expires |-> clock + LOGIN_WINDOW]
        ELSE [seen EXCEPT !.count = @ + 1]

\* current_user.is_authenticated: the browser holds the login of a stored user.
is_authenticated(b) ==
    auth.user[b] \in DOMAIN users

\* @admin_required in front of the named endpoint: "pass", or where it redirects.
admin_required(b, endpoint) ==
    IF ~is_authenticated(b) THEN "admin_login"
    ELSE IF ~users[auth.user[b]].is_active THEN "admin_login"
    ELSE IF users[auth.user[b]].must_change_password /\ endpoint # "change_password"
         THEN "change_password"
    ELSE "pass"

\* GET or POST /admin/login from browser b.
admin_login(b, method, username, password) ==
    /\ Hit(b).count <= LOGIN_LIMIT + MaxRejected
    /\ LET request == [route |-> "admin_login", browser |-> b,
                       method |-> method, username |-> username, password |-> password]
           hit  == Hit(b)
           name == Strip(username)
           seen == [auth EXCEPT !.limit[get_remote_address(b)] = hit]
       IN  IF hit.count > LOGIN_LIMIT
           THEN /\ http' = [request |-> request, status |-> 429]
                /\ auth' = seen
                /\ UNCHANGED <<users, security_log>>
           ELSE IF is_authenticated(b)
           THEN /\ http' = [request |-> request, status |-> 302,
                            location |-> "admin_dashboard"]
                /\ auth' = seen
                /\ UNCHANGED <<users, security_log>>
           ELSE IF method # "POST"
           THEN /\ http' = [request |-> request, status |-> 200, flash |-> ""]
                /\ auth' = seen
                /\ UNCHANGED <<users, security_log>>
           ELSE IF name = <<>> \/ password = ""
           THEN /\ http' = [request |-> request, status |-> 200,
                            flash |-> "Please provide both username and password"]
                /\ auth' = seen
                /\ UNCHANGED <<users, security_log>>
           ELSE IF name \notin DOMAIN users
           THEN /\ http' = [request |-> request, status |-> 200,
                            flash |-> "Invalid username or password"]
                /\ auth' = seen
                /\ security_log' = security_log \cup {"failed_login"}
                /\ UNCHANGED users
           ELSE IF is_locked(users[name], clock)
           THEN /\ http' = [request |-> request, status |-> 200,
                            flash |-> "Account is temporarily locked"]
                /\ auth' = seen
                /\ security_log' = security_log \cup {"failed_login"}
                /\ UNCHANGED users
           ELSE IF ~users[name].is_active
           THEN /\ http' = [request |-> request, status |-> 200,
                            flash |-> "This account has been deactivated"]
                /\ auth' = seen
                /\ security_log' = security_log \cup {"failed_login"}
                /\ UNCHANGED users
           ELSE IF password = users[name].password
           THEN /\ users' = [users EXCEPT ![name] = record_successful_login(@, clock)]
                /\ auth' = [seen EXCEPT !.user[b] = name]
                /\ security_log' = security_log \cup {"successful_login"}
                /\ http' = [request |-> request, status |-> 302,
                            location |-> IF users[name].must_change_password
                                         THEN "change_password" ELSE "admin_dashboard"]
           ELSE LET user == record_failed_login(users[name], clock)
                IN  /\ users' = [users EXCEPT ![name] = user]
                    /\ auth' = seen
                    /\ IF is_locked(user, clock)
                       THEN /\ security_log' = security_log \cup {"account_locked"}
                            /\ http' = [request |-> request, status |-> 200,
                                        flash |-> "Account has been locked for 30 minutes"]
                       ELSE /\ security_log' = security_log \cup {"failed_login"}
                            /\ http' = [request |-> request, status |-> 200,
                                        flash |-> "Invalid username or password",
                                        remaining_attempts |->
                                            5 - user.failed_login_attempts]
    /\ UNCHANGED <<chat, clock>>

\* GET /admin/logout
admin_logout(b) ==
    /\ LET request == [route |-> "admin_logout", browser |-> b]
           gate == admin_required(b, "admin_logout")
       IN  IF gate # "pass"
           THEN /\ http' = [request |-> request, status |-> 302, location |-> gate]
                /\ UNCHANGED <<auth, security_log>>
           ELSE /\ http' = [request |-> request, status |-> 302, location |-> "index"]
                /\ auth' = [auth EXCEPT !.user[b] = Anonymous]
                /\ security_log' = security_log \cup {"admin_action"}
    /\ UNCHANGED <<chat, clock, users>>

\* POST /admin/change-password with the new password given twice.
change_password(b, current_password, new_password) ==
    /\ LET request == [route |-> "change_password", browser |-> b,
                       current_password |-> current_password]
           gate == admin_required(b, "change_password")
       IN  IF gate # "pass"
           THEN /\ http' = [request |-> request, status |-> 302, location |-> gate]
                /\ UNCHANGED <<users, security_log>>
           ELSE IF current_password # users[auth.user[b]].password
           THEN /\ http' = [request |-> request, status |-> 200,
                            flash |-> "Current password is incorrect"]
                /\ UNCHANGED <<users, security_log>>
           ELSE /\ users' = [users EXCEPT ![auth.user[b]] =
                                [@ EXCEPT !.password = new_password,
                                          !.must_change_password = FALSE]]
                /\ security_log' = security_log \cup {"password_change"}
                /\ http' = [request |-> request, status |-> 302,
                            location |-> "admin_dashboard"]
    /\ UNCHANGED <<chat, clock, auth>>

\* POST /admin/users/<id>/unlock
unlock_user(b, name) ==
    /\ name \in DOMAIN users
    /\ LET request == [route |-> "unlock_user", browser |-> b,
                       username |-> name]
           gate == admin_required(b, "unlock_user")
       IN  IF gate # "pass"
           THEN /\ http' = [request |-> request, status |-> 302, location |-> gate]
                /\ UNCHANGED <<users, security_log>>
           ELSE /\ users' = [users EXCEPT ![name] = unlock_account(@)]
                /\ security_log' = security_log \cup {"admin_action"}
                /\ http' = [request |-> request, status |-> 302,
                            location |-> "admin_users"]
    /\ UNCHANGED <<chat, clock, auth>>

(***************************************************************************)
(* The profile pages (create_profile, edit_profile, delete_profile).       *)
(***************************************************************************)
\* The largest profile id followed.
MaxProfiles ==
    3

\* A bulk update that clears nothing.
KeepDefaults(rows) ==
    rows

\* Profile.query.filter_by(is_default=True).update({'is_default': False})
UnsetDefaults(rows) ==
    [p \in DOMAIN rows |-> [rows[p] EXCEPT !.is_default = FALSE]]

\* The unique constraint on profiles.name holds of the rows.
NamesUnique(rows) ==
    \A p, q \in DOMAIN rows : rows[p].name = rows[q].name => p = q

\* POST /admin/profiles/create; a commit that breaks the unique constraint
\* raises, the transaction is rolled back and the request ends with a 500.
create_profile(b, name, is_default) ==
    /\ NextProfileId <= MaxProfiles
    /\ LET request == [route |-> "create_profile", browser |-> b, name |-> name,
                       is_default |-> is_default]
           gate == admin_required(b, "create_profile")
           kept == IF is_default THEN UnsetDefaults(profiles) ELSE profiles
           rows == kept @@ (NextProfileId :>
                       [name |-> name, is_default |-> is_default, primary_resume_id |-> 0,
                        resumes |-> {}])
       IN  IF gate # "pass"
           THEN /\ http' = [request |-> request, status |-> 302, location |-> gate]
                /\ UNCHANGED profiles
           ELSE IF name = ""
           THEN /\ http' = [request |-> request, status |-> 302,
                            location |-> "create_profile",
                            flash |-> "Profile name is required"]
                /\ UNCHANGED profiles
           ELSE IF ~NamesUnique(rows)
           THEN /\ http' = [request |-> request, status |-> 500]
                /\ UNCHANGED profiles
           ELSE /\ http' = [request |-> request, status |-> 302,
                            location |-> "edit_profile",
                            flash |-> "Profile created successfully!"]
                /\ profiles' = rows
    /\ UNCHANGED <<sessions, messages, clock, conns, rooms, inbox, security_log, th, nturns,
                   completed, GEMINI_API_KEY, resumes, direct, desk, settings>>

\* POST /admin/profiles/<profile_id>/edit
edit_profile(b, profile_id, name, is_default, primary_resume_id) ==
    /\ LET request == [route |-> "edit_profile", browser |-> b, profile_id |-> profile_id,
                       name |-> name, is_default |-> is_default]
           gate == admin_required(b, "edit_profile")
       IN  IF gate # "pass"
           THEN /\ http' = [request |-> request, status |-> 302, location |-> gate]
                /\ UNCHANGED profiles
           ELSE IF profile_id \notin DOMAIN profiles
           THEN /\ http' = [request |-> request, status |-> 404]
                /\ UNCHANGED profiles
           ELSE LET named == [profiles EXCEPT ![profile_id].name = name,
                                  ![profile_id].primary_resume_id = primary_resume_id]
                    rows  == IF is_default /\ ~profiles[profile_id].is_default
                             THEN [UnsetDefaults(named) EXCEPT
                                       ![profile_id].is_default = TRUE]
                             ELSE named
                IN  IF ~NamesUnique(rows)
                    THEN /\ http' = [request |-> request, status |-> 500]
                         /\ UNCHANGED profiles
                    ELSE /\ profiles' = rows
                         /\ http' = [request |-> request, status |-> 302,
                                     location |-> "admin_profiles",
                                     warning |-> ~is_default /\ profiles[profile_id].is_default,
                                     flash |-> "Profile updated successfully!"]
    /\ UNCHANGED <<sessions, messages, clock, conns, rooms, inbox, security_log, th, nturns,
                   completed, GEMINI_API_KEY, resumes, direct, desk, settings>>

\* POST /admin/profiles/<profile_id>/delete
delete_profile(b, profile_id) ==
    /\ LET request == [route |-> "delete_profile", browser |-> b, profile_id |-> profile_id]
           gate == admin_required(b, "delete_profile")
       IN  IF gate # "pass"
           THEN /\ http' = [request |-> request, status |-> 302, location |-> gate]
                /\ UNCHANGED profiles
           ELSE IF profile_id \notin DOMAIN profiles
           THEN /\ http' = [request |-> request, status |-> 404]
                /\ UNCHANGED profiles
           ELSE IF profiles[profile_id].is_default
           THEN /\ http' = [request |-> request, status |-> 302,
                            location |-> "admin_profiles",
                            flash |-> "Cannot delete the default profile"]
                /\ UNCHANGED profiles
           ELSE /\ profiles' = [p \in DOMAIN profiles \ {profile_id} |-> profiles[p]]
                /\ http' = [request |-> request, status |-> 302,
                            location |-> "admin_profiles",
                            flash |-> "Profile deleted successfully!"]
    /\ UNCHANGED <<sessions, messages, clock, conns, rooms, inbox, security_log, th, nturns,
                   completed, GEMINI_API_KEY, resumes, direct, desk, settings>>

(***************************************************************************)
(* HTTP requests.                                                          *)
(***************************************************************************)
NoResponse ==
    [status |-> 0]

\* The user_identifier a request carries: none, or a name.
UserAlice ==
    <<"a","l","i","c","e">>

UserBob ==
    <<"b","o","b">>

Identifiers ==
    {None, <<>>, UserAlice, UserBob}

\* The error text of the 401 response.
UNAUTHORIZED ==
    <<"U","n","a","u","t","h","o","r","i","z","e","d">>

\* GET /api/history/<session_id>/messages?user_identifier=...
get_session_messages(session_id, user_identifier) ==
    /\ LET request == [route |-> "messages", session_id |-> session_id,
                       user_identifier |-> user_identifier]
       IN  IF session_id \notin DOMAIN sessions
           THEN http' = [request |-> request, status |-> 404]
           ELSE LET session == sessions[session_id]
                    rows == SessionMessages(session_id)
                IN  IF /\ Truthy(user_identifier)
                       /\ Truthy(session.user_identifier)
                       /\ session.user_identifier # user_identifier
                    THEN http' = [request |-> request, status |-> 401,
                                  error |-> UNAUTHORIZED]
                    ELSE http' = [request |-> request, status |-> 200,
                                  session_id |-> session_id, title |-> session.title,
                                  messages |-> [k \in 1..Len(rows) |->
                                                   [role |-> rows[k].role,
                                                    content |-> rows[k].content,
                                                    timestamp |-> rows[k].timestamp]]]
    /\ UNCHANGED <<sessions, messages, clock, conns, rooms, inbox, security_log, th, nturns,
                   completed, docs, direct, desk, settings>>

\* .limit(50) of the session list.
LIST_LIMIT ==
    50

\* The title shown for a session that has none.
NEW_CHAT ==
    <<"N","e","w"," ","C","h","a","t">>

\* order_by(ChatSession.last_activity.desc()): the sort key of a session row.
\* Rows with equal last_activity come in an order the database chooses; s1
\* and s2 are the only rows that can be equal, and "first" names the one the
\* database puts first.
ActivityKey(session_id, first) ==
    2 * sessions[session_id].last_activity + (IF session_id = first THEN 1 ELSE 0)

\* One entry of the session list.
ListEntry(session_id) ==
    [session_id |-> session_id,
     title |-> IF Truthy(sessions[session_id].title)
               THEN sessions[session_id].title ELSE NEW_CHAT,
     last_activity |-> sessions[session_id].last_activity,
     message_count |-> sessions[session_id].message_count]

\* The sessions of an identifier, most recently active first, all of them.
ListOf(user_identifier, first) ==
    LET own == {s \in DOMAIN sessions : sessions[s].user_identifier = user_identifier}
    IN  [k \in 1..Cardinality(own) |->
            ListEntry(CHOOSE s \in own :
                Cardinality({x \in own : ActivityKey(x, first) > ActivityKey(s, first)})
                    = k - 1)]

\* A session list without the limit.
get_chat_history_unlimited(user_identifier, first) ==
    /\ http' = [request |-> [route |-> "history", user_identifier |-> user_identifier],
                status |-> 200,
                sessions |-> IF ~Truthy(user_identifier) THEN <<>>
                             ELSE ListOf(user_identifier, first)]
    /\ UNCHANGED <<sessions, messages, clock, conns, rooms, inbox, security_log, th, nturns,
                   completed, docs, direct, desk, settings>>

\* GET /api/history?user_identifier=...
get_chat_history(user_identifier, first) ==
    /\ http' = [request |-> [route |-> "history", user_identifier |-> user_identifier],
                status |-> 200,
                sessions |-> IF ~Truthy(user_identifier) THEN <<>>
                             ELSE LET all == ListOf(user_identifier, first)
                                  IN  IF Len(all) <= LIST_LIMIT THEN all
                                      ELSE SubSeq(all, 1, LIST_LIMIT)]
    /\ UNCHANGED <<sessions, messages, clock, conns, rooms, inbox, security_log, th, nturns,
                   completed, docs, direct, desk, settings>>


\* No DELETE request is being served.
NoDelete ==
    [pc |-> "none", session_id |-> Nil, rows |-> {}]

\* DELETE /api/history/<session_id>, up to db.session.delete(session): the
\* session is looked up (404 when there is none) and marked for deletion,
\* which loads its messages so that each is deleted with it.
delete_chat_session(session_id) ==
    /\ deleting.pc = "none"
    /\ IF session_id \notin DOMAIN sessions
       THEN /\ http' = [request |-> [route |-> "delete", session_id |-> session_id],
                        status |-> 404]
            /\ UNCHANGED deleting
       ELSE /\ deleting' = [pc |-> "marked", session_id |-> session_id,
                            rows |-> {messages[i] : i \in {j \in 1..Len(messages) :
                                          messages[j].session_id = session_id}}]
            /\ UNCHANGED http
    /\ UNCHANGED <<sessions, messages, clock, conns, rooms, inbox, security_log, th, nturns,
                   completed, docs, direct, users, auth, settings>>

\* A commit that deletes the session row and every message row in the table.
DeleteCommitAllMessages ==
    /\ deleting.pc = "marked"
    /\ messages' = <<>>
    /\ sessions' = [s \in DOMAIN sessions \ {deleting.session_id} |-> sessions[s]]
    /\ http' = [request |-> [route |-> "delete", session_id |-> deleting.session_id],
                status |-> 200, success |-> TRUE]
    /\ deleting' = NoDelete
    /\ UNCHANGED <<clock, conns, rooms, inbox, security_log, th, nturns, completed, docs,
                   direct, users, auth, settings>>

\* db.session.commit() of the DELETE request: the loaded message rows and the
\* session row are deleted, each by its primary key, and success is returned.
DeleteCommit ==
    /\ deleting.pc = "marked"
    /\ LET Kept(m) == m \notin deleting.rows
       IN  messages' = SelectSeq(messages, Kept)
    /\ sessions' = [s \in DOMAIN sessions \ {deleting.session_id} |-> sessions[s]]
    /\ http' = [request |-> [route |-> "delete", session_id |-> deleting.session_id],
                status |-> 200, success |-> TRUE]
    /\ deleting' = NoDelete
    /\ UNCHANGED <<clock, conns, rooms, inbox, security_log, th, nturns, completed, docs,
                   direct, users, auth, settings>>


(***************************************************************************)
(* Deployments: the API key setting and the documents an administrator has *)
(* uploaded.  Start-up creates the default profile.                        *)
(***************************************************************************)
FreshProfiles ==
    (1 :> [name |-> "Default Profile", is_default |-> TRUE, primary_resume_id |-> 0,
           resumes |-> {}])

NoResumes ==
    [r \in {} |-> 0]

CvProfiles ==
    (1 :> [name |-> "Default Profile", is_default |-> TRUE, primary_resume_id |-> 1,
           resumes |-> {1}])

CvResumes ==
    (1 :> [filename |-> FileCv, content |-> DocCv, is_active |-> TRUE])

Deployments ==
    {[key |-> TRUE,  profiles |-> CvProfiles,    resumes |-> CvResumes],
     [key |-> FALSE, profiles |-> FreshProfiles, resumes |-> NoResumes]}

(***************************************************************************)
(* Inputs.                                                                 *)
(***************************************************************************)
\* Message texts a client sends.
Messages ==
    {MsgBlank, MsgHi, MsgContact, MsgDownload}

\* What the backend streams back.
Scripts ==
    {<<>>, <<FragHel, <<>>, FragLo, FragWorld>>, <<FragHel, RAISE, FragLo>>}

\* The smaller input sets of the specification with overlapping handlers.
FewMessages ==
    {MsgHi, MsgSql}

FewScripts ==
    {<<FragHel>>}

(***************************************************************************)
(* Specifications.                                                         *)
(***************************************************************************)
Init ==
    /\ sessions = [s \in {} |-> 0]
    /\ messages = <<>>
    /\ clock = 1
    /\ conns = [c \in ConnIds |-> PendingConn]
    /\ rooms = [s \in SessionIds |-> {}]
    /\ inbox = [c \in ConnIds |-> {}]
    /\ security_log = {}
    /\ th = [h \in Handlers |-> IdleThread]
    /\ nturns = 0
    /\ direct = [k \in CallIds |-> NoCall]
    /\ http = NoResponse
    /\ deleting = NoDelete
    /\ users = StartUsers
    /\ auth = NoAuth
    /\ settings = <<DefaultSettings>>
    /\ completed = [s \in SessionIds |-> 0]
    /\ \E d \in Deployments :
          /\ GEMINI_API_KEY = d.key
          /\ profiles = d.profiles
          /\ resumes = d.resumes

\* A connect with any of the header combinations.
Connect ==
    \E c \in ConnIds, origin \in OriginHeaders, referer \in RefererHeaders,
       session_arg \in {Nil, "s1"} :
        HandleConnect(c, origin, referer, session_arg, None)

\* A connect as a browser on an allowed page sends it, new or resuming.
BrowserConnect ==
    \E c \in ConnIds, session_arg \in {Nil, "s1"} :
        HandleConnect(c, ORIGIN_LOCALHOST_8080, None, session_arg, None)

\* A connect from an allowed page, between two send_message events.
ConnectSeq ==
    /\ \A g \in Handlers : Free(g)
    /\ \E c \in ConnIds : HandleConnect(c, ORIGIN_LOCALHOST_8080, None, Nil, None)

Finish ==
    \E c \in ConnIds : ConnectFinish(c)

FinishSeq ==
    /\ \A g \in Handlers : Free(g)
    /\ Finish

\* send_message arrives while another handler may still be running.
SendMessage ==
    \E h \in Handlers, c \in ConnIds, session_id \in SessionIds, raw \in FewMessages :
        Receive(h, c, session_id, raw, NO_PROFILE)

\* send_message arrives when no handler is running.
SendMessageSeq ==
    /\ \A g \in Handlers : Free(g)
    /\ \E h \in Handlers, c \in ConnIds, session_id \in SessionIds, raw \in Messages :
          Receive(h, c, session_id, raw, NO_PROFILE)

Call ==
    \E h \in Handlers :
        \/ CallAdapter(h, TRUE, <<>>)
        \/ \E script \in Scripts : CallAdapter(h, FALSE, script)

CallFew ==
    \E h \in Handlers, script \in FewScripts : CallAdapter(h, FALSE, script)

Step ==
    \E h \in Handlers :
        \/ SaveUser(h)
        \/ EchoAndStart(h)
        \/ StreamNext(h)
        \/ Finalize(h)
        \/ SaveBot(h)
        \/ TitleCheck(h)
        \/ TitleWrite(h)

\* Handlers of send_message overlap freely.
Next ==
    \/ BrowserConnect
    \/ Finish
    \/ SendMessage
    \/ CallFew
    \/ Step

Spec ==
    Init /\ [][Next]_vars

\* One send_message at a time, with the full range of messages and backend
\* behaviours.
NextSeq ==
    \/ ConnectSeq
    \/ FinishSeq
    \/ SendMessageSeq
    \/ Call
    \/ Step

SpecSeq ==
    Init /\ [][NextSeq]_vars

\* Connection attempts only, with the full range of headers.
NextConnect ==
    \/ Connect
    \/ Finish

SpecConnect ==
    Init /\ [][NextConnect]_vars

(***************************************************************************)
(* A store that already holds conversations: session s1 after several      *)
(* completed turns and session s2 after one, the rows as handle_message    *)
(* writes them.  The prompts of further turns of s1 are built over it.     *)
(***************************************************************************)
\* Numbers of messages s1 holds at the start (whole turns).
SeedCounts ==
    {0, 8, 10}

\* The texts of the earlier messages of s1, one letter each.
SeedLetters ==
    <<"a", "b", "c", "d", "e", "f", "g", "h", "i", "j", "k", "l">>

\* The rows of s1 (timestamps 1..n) followed by the two, newer, rows of s2.
SeedMessages(n) ==
    [k \in 1..(n + 2) |->
        IF k <= n
        THEN [session_id |-> "s1", role |-> IF k % 2 = 1 THEN "user" ELSE "assistant",
              content |-> <<SeedLetters[k]>>, timestamp |-> k, turn |-> 0]
        ELSE [session_id |-> "s2", role |-> IF k = n + 1 THEN "user" ELSE "assistant",
              content |-> IF k = n + 1 THEN <<"x">> ELSE <<"y">>, timestamp |-> k,
              turn |-> 0]]

SeedSessions(n) ==
    [s \in SessionIds |->
        IF s = "s1"
        THEN [message_count |-> n, title |-> IF n = 0 THEN None ELSE <<"a">>,
              user_identifier |-> None, started_at |-> 0, last_activity |-> IF n = 0 THEN 0 ELSE n - 1]
        ELSE [message_count |-> 2, title |-> <<"x">>, user_identifier |-> None,
              started_at |-> 0,
              last_activity |-> n]]

InitHistory ==
    /\ \E n \in SeedCounts :
          /\ sessions = SeedSessions(n)
          /\ messages = SeedMessages(n)
          /\ clock = n + 3
          /\ completed = [s \in SessionIds |-> IF s = "s1" THEN n \div 2 ELSE 1]
    /\ conns = [c \in ConnIds |->
                   IF c = 1
                   THEN [state |-> "active", origin |-> ORIGIN_LOCALHOST_8080,
                         referer |-> None, session_arg |-> "s1",
                         user_identifier |-> None, session_id |-> "s1",
                         found |-> TRUE]
                   ELSE PendingConn]
    /\ rooms = [s \in SessionIds |-> IF s = "s1" THEN {1} ELSE {}]
    /\ inbox = [c \in ConnIds |-> IF c = 1 THEN {"connected"} ELSE {}]
    /\ security_log = {}
    /\ th = [h \in Handlers |-> IdleThread]
    /\ nturns = 0
    /\ direct = [k \in CallIds |-> NoCall]
    /\ http = NoResponse
    /\ deleting = NoDelete
    /\ users = StartUsers
    /\ auth = NoAuth
    /\ settings = <<DefaultSettings>>
    /\ \E d \in Deployments :
          /\ GEMINI_API_KEY = d.key
          /\ profiles = d.profiles
          /\ resumes = d.resumes

\* Turns one at a time over the seeded store.
NextHistory ==
    \/ SendMessageSeq
    \/ Call
    \/ Step

SpecHistory ==
    InitHistory /\ [][NextHistory]_vars

(***************************************************************************)
(* Direct calls of the adapter, over every combination of API key and      *)
(* primary document.                                                       *)
(***************************************************************************)
AdapterDeployments ==
    {[key |-> k, profiles |-> d.profiles, resumes |-> d.resumes] :
        k \in BOOLEAN, d \in Deployments}

InitAdapter ==
    /\ sessions = [s \in {} |-> 0]
    /\ messages = <<>>
    /\ clock = 1
    /\ conns = [c \in ConnIds |-> PendingConn]
    /\ rooms = [s \in SessionIds |-> {}]
    /\ inbox = [c \in ConnIds |-> {}]
    /\ security_log = {}
    /\ th = [h \in Handlers |-> IdleThread]
    /\ nturns = 0
    /\ direct = [k \in CallIds |-> NoCall]
    /\ http = NoResponse
    /\ deleting = NoDelete
    /\ users = StartUsers
    /\ auth = NoAuth
    /\ settings = <<DefaultSettings>>
    /\ completed = [s \in SessionIds |-> 0]
    /\ \E d \in AdapterDeployments :
          /\ GEMINI_API_KEY = d.key
          /\ profiles = d.profiles
          /\ resumes = d.resumes

\* A call in streaming mode: the creation of the stream raises, or it returns
\* and the stream behaves as scripted.
CallStreaming ==
    \E k \in CallIds, user_message \in {MsgHi, MsgContact, MsgDownload} :
        \/ DirectCall(k, user_message, "s1", NO_PROFILE, TRUE, TRUE, <<>>, [text |-> RAISE])
        \/ \E script \in Scripts :
               DirectCall(k, user_message, "s1", NO_PROFILE, TRUE, FALSE, script, [text |-> RAISE])

\* A call without streaming: generate_content raises, or returns a response.
CallPlain ==
    \E k \in CallIds, user_message \in {MsgHi, MsgContact, MsgDownload} :
        \/ DirectCall(k, user_message, "s1", NO_PROFILE, FALSE, TRUE, <<>>, [text |-> RAISE])
        \/ \E response \in Responses :
               DirectCall(k, user_message, "s1", NO_PROFILE, FALSE, FALSE, <<>>, response)

Consume ==
    \E k \in CallIds : NextFragment(k)

NextAdapter ==
    \/ CallStreaming
    \/ CallPlain
    \/ Consume

SpecAdapter ==
    InitAdapter /\ [][NextAdapter]_vars

\* Turns one at a time, any of whose commits may fail.
Fail ==
    \E h \in Handlers : CommitFails(h)

NextFail ==
    \/ NextSeq
    \/ Fail

SpecFail ==
    Init /\ [][NextFail]_vars

\* Turns one at a time over connections that may close at any moment.
Close ==
    \E c \in ConnIds : Disconnect(c)

NextClose ==
    \/ NextSeq
    \/ Close

SpecClose ==
    Init /\ [][NextClose]_vars

\* Clients with and without an owning identifier chat, one turn at a time,
\* and the message history of a session is fetched over HTTP.
ConnectOwned ==
    /\ \A g \in Handlers : Free(g)
    /\ \E c \in ConnIds, user_identifier \in {None, UserAlice} :
          HandleConnect(c, ORIGIN_LOCALHOST_8080, None, Nil, user_identifier)

SendFewSeq ==
    /\ \A g \in Handlers : Free(g)
    /\ \E h \in Handlers, c \in ConnIds, raw \in FewMessages :
          Receive(h, c, conns[c].session_id, raw, NO_PROFILE)

GetMessages ==
    /\ \A g \in Handlers : Free(g)
    /\ \E session_id \in SessionIds, user_identifier \in Identifiers :
          get_session_messages(session_id, user_identifier)

NextHttp ==
    \/ ConnectOwned
    \/ FinishSeq
    \/ SendFewSeq
    \/ CallFew
    \/ Step
    \/ GetMessages

SpecHttp ==
    Init /\ [][NextHttp]_vars

\* One send_message at a time, with messages whose trimmed length is 0, 2, 49,
\* 50, 51 and 70 characters.
TitleMessages ==
    {MsgBlank, MsgHi, MsgLen49, MsgLen50, MsgLen51, MsgLen70}

SendTitledSeq ==
    /\ \A g \in Handlers : Free(g)
    /\ \E h \in Handlers, c \in ConnIds, session_id \in SessionIds, raw \in TitleMessages :
          Receive(h, c, session_id, raw, NO_PROFILE)

NextTitle ==
    \/ ConnectSeq
    \/ FinishSeq
    \/ SendTitledSeq
    \/ CallFew
    \/ Step

SpecTitle ==
    Init /\ [][NextTitle]_vars

\* The administration pages alone: log in, log out, change the password,
\* unlock, and time passing between requests.
MaxMinutes ==
    45

AdminPadded ==
    <<" ","a","d","m","i","n"," ">>

GuestName ==
    <<"g","u","e","s","t">>

\* The forms posted to /admin/login: the account's name with the first
\* password, the second password and none; no name; a name that is not stored.
LoginForms ==
    {<<AdminPadded, AdminPassword>>, <<AdminPadded, NewPassword>>, <<AdminPadded, "">>,
     <<<<" ">>, AdminPassword>>, <<GuestName, AdminPassword>>}

InitLogin ==
    /\ sessions = [s \in {} |-> 0]
    /\ messages = <<>>
    /\ clock = 0
    /\ conns = [c \in ConnIds |-> PendingConn]
    /\ rooms = [s \in SessionIds |-> {}]
    /\ inbox = [c \in ConnIds |-> {}]
    /\ security_log = {}
    /\ th = [h \in Handlers |-> IdleThread]
    /\ nturns = 0
    /\ direct = [k \in CallIds |-> NoCall]
    /\ http = NoResponse
    /\ deleting = NoDelete
    /\ users = StartUsers
    /\ auth = NoAuth
    /\ settings = <<DefaultSettings>>
    /\ completed = [s \in SessionIds |-> 0]
    /\ GEMINI_API_KEY = TRUE
    /\ profiles = FreshProfiles
    /\ resumes = NoResumes

LoginRequest ==
    \E b \in Browsers :
        \/ admin_login(b, "GET", <<>>, "")
        \/ \E form \in LoginForms : admin_login(b, "POST", form[1], form[2])

LogoutRequest ==
    \E b \in Browsers : admin_logout(b)

ChangePasswordRequest ==
    \E b \in Browsers, current_password \in {AdminPassword, NewPassword} :
        change_password(b, current_password, NewPassword)

UnlockRequest ==
    \E b \in Browsers : unlock_user(b, AdminName)

\* A quarter of an hour passes with no request.
Wait ==
    /\ clock + LOGIN_WINDOW <= MaxMinutes
    /\ clock' = clock + LOGIN_WINDOW
    /\ UNCHANGED <<chat, users, auth, http, security_log>>

NextLogin ==
    \/ LoginRequest
    \/ LogoutRequest
    \/ ChangePasswordRequest
    \/ UnlockRequest
    \/ Wait

SpecLogin ==
    InitLogin /\ [][NextLogin]_vars

\* The profile pages alone, one request at a time, once the administrator is
\* in: the sign-in, the forced change of password, then create, edit and delete.
ProfileNames ==
    {"", "Default Profile", "Ops", "Dev"}

ProfileIds ==
    1..(MaxProfiles + 1)

\* The administrator signs in with the password of the account.
SignIn ==
    /\ ~is_authenticated("b1")
    /\ admin_login("b1", "POST", AdminName, users[AdminName].password)

FirstPassword ==
    change_password("b1", AdminPassword, NewPassword)

CreateProfile ==
    \E name \in ProfileNames, is_default \in BOOLEAN :
        create_profile("b1", name, is_default)

EditProfile ==
    \E profile_id \in ProfileIds, name \in ProfileNames, is_default \in BOOLEAN,
       primary_resume_id \in {0} :
        edit_profile("b1", profile_id, name, is_default, primary_resume_id)

DeleteProfile ==
    \E profile_id \in ProfileIds : delete_profile("b1", profile_id)

NextDefault ==
    \/ SignIn
    \/ FirstPassword
    \/ CreateProfile
    \/ EditProfile
    \/ DeleteProfile

SpecDefault ==
    InitLogin /\ [][NextDefault]_vars

\* Conversations one turn at a time and DELETE requests served between them.
TurnAlone ==
    /\ deleting.pc = "none"
    /\ \/ ConnectSeq
       \/ FinishSeq
       \/ SendFewSeq
       \/ CallFew
       \/ Step

DeleteSeq ==
    /\ \A g \in Handlers : Free(g)
    /\ \E session_id \in SessionIds : delete_chat_session(session_id)

DeleteFinish ==
    DeleteCommit

NextDelete ==
    \/ TurnAlone
    \/ DeleteSeq
    \/ DeleteFinish

SpecDelete ==
    Init /\ [][NextDelete]_vars

\* A DELETE request served by its own thread while a turn is in progress.
DeleteAny ==
    \E session_id \in SessionIds : delete_chat_session(session_id)

Gone ==
    \E h \in Handlers : RowGone(h)

NextRace ==
    \/ ConnectSeq
    \/ FinishSeq
    \/ SendFewSeq
    \/ CallFew
    \/ Step
    \/ Gone
    \/ DeleteAny
    \/ DeleteFinish

SpecRace ==
    Init /\ [][NextRace]_vars


(***************************************************************************)
(* A deployment with two profiles: the default one with an active and a    *)
(* deactivated document, a second one with an active document and one      *)
(* without text.  Messages select a profile, or none.                      *)
(***************************************************************************)
TwoProfiles ==
    (1 :> [name |-> "Default Profile", is_default |-> TRUE, primary_resume_id |-> 1,
           resumes |-> {1, 3}])
    @@ (2 :> [name |-> "Ops", is_default |-> FALSE, primary_resume_id |-> 0,
              resumes |-> {2, 4}])

FourResumes ==
    (1 :> [filename |-> FileCv, content |-> DocCv, is_active |-> TRUE])
    @@ (2 :> [filename |-> FileOps, content |-> DocOps, is_active |-> TRUE])
    @@ (3 :> [filename |-> FileCv, content |-> DocOld, is_active |-> FALSE])
    @@ (4 :> [filename |-> FileOps, content |-> <<>>, is_active |-> TRUE])

\* The profile selectors a client sends: none, one that tests false, the two
\* profiles, and the id of no profile.
Selectors ==
    {NO_PROFILE, 0, 1, 2, 3}

InitProfiles ==
    /\ sessions = [s \in {} |-> 0]
    /\ messages = <<>>
    /\ clock = 1
    /\ conns = [c \in ConnIds |-> PendingConn]
    /\ rooms = [s \in SessionIds |-> {}]
    /\ inbox = [c \in ConnIds |-> {}]
    /\ security_log = {}
    /\ th = [h \in Handlers |-> IdleThread]
    /\ nturns = 0
    /\ direct = [k \in CallIds |-> NoCall]
    /\ http = NoResponse
    /\ deleting = NoDelete
    /\ users = StartUsers
    /\ auth = NoAuth
    /\ settings = <<DefaultSettings>>
    /\ completed = [s \in SessionIds |-> 0]
    /\ GEMINI_API_KEY \in BOOLEAN
    /\ profiles = TwoProfiles
    /\ resumes = FourResumes

SendSelectingSeq ==
    /\ \A g \in Handlers : Free(g)
    /\ \E h \in Handlers, c \in ConnIds, raw \in {MsgHi, MsgDownload},
          profile_id \in Selectors :
          Receive(h, c, conns[c].session_id, raw, profile_id)

NextProfiles ==
    \/ ConnectSeq
    \/ FinishSeq
    \/ SendSelectingSeq
    \/ CallFew
    \/ Step

SpecProfiles ==
    InitProfiles /\ [][NextProfiles]_vars


(***************************************************************************)
(* A store that already holds many sessions of one identifier and two of   *)
(* another, each last active at a moment of its own; new sessions are      *)
(* opened and used, and the session list is fetched over HTTP.             *)
(***************************************************************************)
\* Numbers of sessions alice owns at the start.
ListedCounts ==
    {0, 49, 51}

\* The identifiers of the stored sessions: alice's are "1".."n", bob's are
\* the two after them.
ListedIds(n) ==
    {ToString(i) : i \in 1..(n + 2)}

\* Session "i" was last active at time i (bob's sessions most recently) and
\* holds 2 messages' worth of count; every other one has a title.
ListedSessions(n) ==
    [s \in ListedIds(n) |->
        LET i == CHOOSE j \in 1..(n + 2) : ToString(j) = s
        IN  [message_count |-> 2,
             title |-> IF i % 2 = 0 THEN None ELSE <<"t">>,
             user_identifier |-> IF i <= n THEN UserAlice ELSE UserBob,
             started_at |-> i, last_activity |-> i]]

InitListing ==
    /\ \E n \in ListedCounts :
          /\ sessions = ListedSessions(n)
          /\ clock = n + 3
    /\ messages = <<>>
    /\ conns = [c \in ConnIds |-> PendingConn]
    /\ rooms = [s \in SessionIds |-> {}]
    /\ inbox = [c \in ConnIds |-> {}]
    /\ security_log = {}
    /\ th = [h \in Handlers |-> IdleThread]
    /\ nturns = 0
    /\ direct = [k \in CallIds |-> NoCall]
    /\ http = NoResponse
    /\ deleting = NoDelete
    /\ users = StartUsers
    /\ auth = NoAuth
    /\ settings = <<DefaultSettings>>
    /\ completed = [s \in SessionIds |-> 0]
    /\ GEMINI_API_KEY = TRUE
    /\ profiles = CvProfiles
    /\ resumes = CvResumes

\* A connect of alice's browser, which opens a session of hers.
ConnectAlice ==
    /\ \A g \in Handlers : Free(g)
    /\ \E c \in ConnIds : HandleConnect(c, ORIGIN_LOCALHOST_8080, None, Nil, UserAlice)

SendHiSeq ==
    /\ \A g \in Handlers : Free(g)
    /\ \E h \in Handlers, c \in ConnIds :
          Receive(h, c, conns[c].session_id, MsgHi, NO_PROFILE)

GetHistory ==
    /\ \A g \in Handlers : Free(g)
    /\ \E user_identifier \in Identifiers, first \in SessionIds :
          get_chat_history(user_identifier, first)

NextListing ==
    \/ ConnectAlice
    \/ FinishSeq
    \/ SendHiSeq
    \/ CallFew
    \/ Step
    \/ GetHistory

SpecListing ==
    InitListing /\ [][NextListing]_vars


(***************************************************************************)
(* Helpers of the properties.                                              *)
(***************************************************************************)


\* The handler found its session and is past the lookup.
InTurn(h) ==
    th[h].pc \notin {"idle", "dropped", "notfound"}

\* The handler has run to its end (both commits and the title step).
Completed(h) ==
    th[h].pc = "done"

\* The bot message of the handler's turn is committed.
BotSaved(h) ==
    th[h].pc \in {"title_check", "title_write", "done"}

\* The handler has the adapter's result.
AfterCall(h) ==
    th[h].pc \in {"stream", "finalize", "save_bot", "title_check", "title_write", "done"}

\* The generator is exhausted or a string was returned.
AfterStream(h) ==
    th[h].pc \in {"finalize", "save_bot", "title_check", "title_write", "done"}

\* This step starts a new handler run in thread h.
Started(h) ==
    th'[h].turn # th[h].turn

IsChunk(e) ==
    e.event = "message_chunk"

\* The contents of the message_chunk events of the handler's turn, in order.
ChunkContents(h) ==
    LET chunks == SelectSeq(th[h].events, IsChunk)
    IN  [k \in 1..Len(chunks) |-> chunks[k].content]

RECURSIVE Concat(_)
Concat(texts) ==
    IF texts = <<>> THEN <<>> ELSE Head(texts) \o Concat(Tail(texts))

\* The persisted rows of a turn with a role.
TurnMessages(turn, role) ==
    {m \in {messages[i] : i \in 1..Len(messages)} : m.turn = turn /\ m.role = role}

\* What stream_generator yields for a backend script: the non-empty chunk texts
\* up to the first exception, the error marker if there was one, then the link.
RECURSIVE Yielded(_, _)
Yielded(script, link) ==
    IF script = <<>> THEN (IF link # <<>> THEN <<link>> ELSE <<>>)
    ELSE IF Head(script) = RAISE
         THEN <<STREAM_ERROR_TEXT>> \o (IF link # <<>> THEN <<link>> ELSE <<>>)
    ELSE IF Head(script) = <<>> THEN Yielded(Tail(script), link)
    ELSE <<Head(script)>> \o Yielded(Tail(script), link)

IsPrefix(p, q) ==
    Len(p) <= Len(q) /\ SubSeq(q, 1, Len(p)) = p

\* The position of an event in the order of a turn.
EventRank(e) ==
    CASE e.event = "message" -> 1
      [] e.event = "typing" -> (IF e.typing THEN 2 ELSE 6)
      [] e.event = "message_start" -> 3
      [] e.event = "message_chunk" -> 4
      [] e.event = "message_end" -> 5
      [] OTHER -> 0

\* Which event may directly follow which.
MayFollow ==
    {<<1, 2>>, <<2, 3>>, <<3, 4>>, <<3, 5>>, <<4, 4>>, <<4, 5>>, <<5, 6>>}

\* The text consists of whitespace only (or is empty).
AllWhitespace(text) ==
    \A i \in 1..Len(text) : text[i] \in Whitespace

\* The connection got past the origin check.
Accepted(c) ==
    conns[c].state \in {"joined", "active", "failed"}

(***************************************************************************)
(* C1.  With the send_message events handled one at a time and every       *)
(* commit succeeding: whenever no turn of a session is in progress, its    *)
(* message_count is twice the number of its completed turns, it has that   *)
(* many persisted messages, and ordered by timestamp their roles are       *)
(* user, assistant, user, assistant, ... whatever each turn's outcome was. *)
(***************************************************************************)
C1_CountAndAlternation ==
    \A s \in DOMAIN sessions :
        (\A h \in Handlers : th[h].session_id = s => ~InTurn(h) \/ Completed(h))
        => LET rows == SessionMessages(s)
           IN  /\ sessions[s].message_count = 2 * completed[s]
               /\ Len(rows) = 2 * completed[s]
               /\ \A k \in 1..Len(rows) :
                      rows[k].role = IF k % 2 = 1 THEN "user" ELSE "assistant"

\* Two completed turns on one session, one refused and one answered otherwise.
C1_Witness ==
    \E s \in DOMAIN sessions :
        /\ completed[s] = 2
        /\ \A h \in Handlers : ~InTurn(h) \/ Completed(h)
        /\ \E i, j \in 1..Len(messages) :
              /\ messages[i].session_id = s /\ messages[i].content = REFUSAL_TEXT
              /\ messages[j].session_id = s /\ messages[j].role = "assistant"
              /\ messages[j].content # REFUSAL_TEXT

(***************************************************************************)
(* C2.  In every committed state each session's message_count equals the   *)
(* number of persisted messages of that session, also when two handlers    *)
(* work on the same session at the same time.                              *)
(***************************************************************************)
C2_CountMatchesMessages ==
    \A s \in DOMAIN sessions :
        sessions[s].message_count =
            Cardinality({i \in 1..Len(messages) : messages[i].session_id = s})

(***************************************************************************)
(* C3.  The events of a turn go out in the order message(user), typing     *)
(* (true), message_start(assistant), message_chunk*, message_end, typing   *)
(* (false): what has been emitted so far is always a prefix of that order, *)
(* and once the handler is past its finalisation all five non-chunk events *)
(* are out, each exactly once.                                             *)
(***************************************************************************)
C3_EventOrder ==
    \A h \in Handlers :
        InTurn(h) =>
            LET ev == th[h].events
                r == [k \in 1..Len(ev) |-> EventRank(ev[k])]
            IN  /\ Len(r) > 0 => r[1] = 1
                /\ \A k \in 1..(Len(r) - 1) : <<r[k], r[k + 1]>> \in MayFollow
                /\ th[h].pc \in {"call", "stream", "finalize"} => Len(r) >= 3
                /\ th[h].pc \in {"save_bot", "title_check", "title_write", "done"}
                       => Len(r) >= 5 /\ r[Len(r)] = 6
                /\ Len(r) >= 3 =>
                       /\ ev[1].role = "user" /\ ev[1].content = th[h].user_message
                       /\ ev[3].role = "assistant"

\* A turn that ran to its end with no chunk at all: five events.
C3_Witness ==
    \E h \in Handlers :
        /\ Completed(h)
        /\ Len(th[h].events) = 5

(***************************************************************************)
(* C4.  The message_chunk events of a turn carry, in order and one event   *)
(* per fragment, exactly the non-empty fragments the generator produced    *)
(* (or the one string the adapter returned); none is empty; their          *)
(* concatenation is the accumulated response and, once the bot message is  *)
(* committed, the content of the persisted assistant message of the turn.  *)
(***************************************************************************)
C4_ChunksAreTheResponse ==
    \A h \in Handlers :
        AfterCall(h) =>
            LET chunks == ChunkContents(h)
            IN  /\ Concat(chunks) = th[h].full_response
                /\ \A k \in 1..Len(chunks) : chunks[k] # <<>>
                /\ th[h].returned = "generator" =>
                       /\ IsPrefix(chunks, Yielded(th[h].script, th[h].link))
                       /\ AfterStream(h) => chunks = Yielded(th[h].script, th[h].link)
                /\ th[h].returned = "str" => chunks = <<th[h].full_response>>
                /\ BotSaved(h) =>
                       /\ Cardinality(TurnMessages(th[h].turn, "assistant")) = 1
                       /\ \A m \in TurnMessages(th[h].turn, "assistant") :
                              m.content = Concat(chunks)

\* A completed turn whose stream raised after a first fragment and ended
\* with the download link.
C4_Witness ==
    \E h \in Handlers :
        /\ Completed(h)
        /\ th[h].script = <<FragHel, RAISE, FragLo>>
        /\ th[h].link # <<>>
        /\ Len(ChunkContents(h)) = 3

(***************************************************************************)
(* C5.  When the lower-cased text of a message contains a disallowed       *)
(* phrase, its turn never assembles a prompt and never calls the backend,  *)
(* never streams, emits the fixed refusal as its only chunk and persists   *)
(* exactly the refusal as the assistant message.                           *)
(***************************************************************************)
C5_InjectionShortCircuits ==
    \A h \in Handlers :
        (/\ InTurn(h)
         /\ \E phrase \in injection_keywords : Contains(Lower(th[h].raw), phrase))
        => /\ th[h].prompt = NoPrompt
           /\ ~th[h].backend_called
           /\ th[h].pc # "stream"
           /\ AfterCall(h) =>
                  /\ th[h].returned = "str"
                  /\ ChunkContents(h) = <<REFUSAL_TEXT>>
                  /\ "suspicious_activity" \in security_log
           /\ BotSaved(h) =>
                  \A m \in TurnMessages(th[h].turn, "assistant") : m.content = REFUSAL_TEXT

\* A completed turn whose message matches only through lower-casing and as a
\* part of longer words ("Contact Ash" holds "act as").
C5_Witness ==
    \E h \in Handlers :
        /\ Completed(h)
        /\ th[h].raw = MsgContact
        /\ TurnMessages(th[h].turn, "assistant") # {}

(***************************************************************************)
(* C6.  A connection whose origin validation fails is rejected and stays   *)
(* outside: it resolves no identifier, is in no room, gets no connected    *)
(* event or any other event, and no Session row exists on its account      *)
(* (every row belongs to a connection that passed validation).             *)
(***************************************************************************)
C6_RejectedTouchesNothing ==
    /\ \A c \in ConnIds :
           (conns[c].state # "pending"
                /\ ~ValidateOrigin(conns[c].origin, conns[c].referer))
           => /\ conns[c].state = "rejected"
              /\ conns[c].session_id = Nil
              /\ \A s \in SessionIds : c \notin rooms[s]
              /\ inbox[c] = {}
    /\ \A s \in DOMAIN sessions : \E c \in ConnIds : Accepted(c) /\ conns[c].session_id = s

\* A rejected connection that asked for session s1 from a foreign origin with
\* an allowed Referer, while s1 does not exist.
C6_Witness ==
    \E c \in ConnIds :
        /\ conns[c].state = "rejected"
        /\ conns[c].origin = OriginEvil
        /\ conns[c].referer = RefererGood
        /\ conns[c].session_arg = "s1"
        /\ "s1" \notin DOMAIN sessions

\* scheme://host:port of a URL: everything before the first "/" after "://".
SchemeHostPort(url) ==
    LET ends == {n \in 0..Len(url) :
                    /\ \E i \in 1..(n - 2) : SubSeq(url, i, i + 2) = <<":", "/", "/">>
                                             /\ \A j \in (i + 3)..n : url[j] # "/"
                    /\ n = Len(url) \/ url[n + 1] = "/"}
    IN  IF ends = {} THEN <<>>
        ELSE SubSeq(url, 1, CHOOSE n \in ends : \A m \in ends : n <= m)

(***************************************************************************)
(* C7.  The connect decision: with an Origin header present the connection *)
(* is accepted exactly when the Origin equals an allow-list entry (the     *)
(* Referer plays no part); with no Origin header it is accepted exactly    *)
(* when the Referer's scheme+host+port is an allow-list entry; with        *)
(* neither header it is rejected.                                          *)
(***************************************************************************)
C7_DecisionOrder ==
    \A c \in ConnIds :
        conns[c].state # "pending" =>
            (Accepted(c) <=>
                IF conns[c].origin # None THEN conns[c].origin \in allowed_origins
                ELSE IF conns[c].referer # None
                     THEN SchemeHostPort(conns[c].referer) \in allowed_origins
                ELSE FALSE)

(***************************************************************************)
(* C8.  Once a session has a title, no later step changes it, also when    *)
(* the handlers of two turns of the session overlap.                       *)
(***************************************************************************)
C8_TitleNeverChanges ==
    [][\A s \in DOMAIN sessions :
           Truthy(sessions[s].title) => sessions'[s].title = sessions[s].title]_vars

(***************************************************************************)
(* C9.  As claimed: every send_message that names no stored session emits  *)
(* exactly one error event, "Session not found", to the sender and nothing *)
(* else, and leaves sessions, messages and rooms as they were.             *)
(***************************************************************************)
C9_AnyTextUnknownSession ==
    [][\A h \in Handlers :
           (Started(h) /\ th'[h].session_id \notin DOMAIN sessions)
           => /\ th'[h].events = <<[event |-> "error", message |-> SESSION_NOT_FOUND]>>
              /\ "error" \in inbox'[th'[h].conn]
              /\ UNCHANGED <<sessions, messages, rooms, completed>>]_vars

(***************************************************************************)
(* C9, amended.  A send_message whose text is not empty after trimming and *)
(* that names no stored session emits exactly one error event, "Session    *)
(* not found", to the sender and nothing else, and leaves sessions,        *)
(* messages and rooms as they were.                                        *)
(***************************************************************************)
C9_UnknownSessionOnlyErrors ==
    [][\A h \in Handlers :
           (/\ Started(h)
            /\ ~AllWhitespace(th'[h].raw)
            /\ th'[h].session_id \notin DOMAIN sessions)
           => /\ th'[h].pc = "notfound"
              /\ th'[h].events = <<[event |-> "error", message |-> SESSION_NOT_FOUND]>>
              /\ inbox' = [inbox EXCEPT ![th'[h].conn] = @ \cup {"error"}]
              /\ UNCHANGED <<sessions, messages, rooms, completed, security_log>>]_vars

\* The error was sent while another session exists and holds messages.
C9_Witness ==
    \E h \in Handlers :
        /\ th[h].pc = "notfound"
        /\ "error" \in inbox[th[h].conn]
        /\ th[h].session_id \notin DOMAIN sessions
        /\ Len(messages) > 0

(***************************************************************************)
(* C10.  A send_message whose text is empty after trimming whitespace is   *)
(* dropped: no event is emitted, not even an error, and the store is       *)
(* unchanged, whether or not its session_id names a stored session.        *)
(***************************************************************************)
C10_EmptyMessageDropped ==
    [][\A h \in Handlers :
           (Started(h) /\ AllWhitespace(th'[h].raw))
           => /\ th'[h].pc = "dropped"
              /\ th'[h].events = <<>>
              /\ UNCHANGED <<sessions, messages, rooms, inbox, completed, security_log>>]_vars

\* A whitespace-only message was dropped for a session that exists and holds
\* messages.
C10_Witness ==
    \E h \in Handlers :
        /\ th[h].pc = "dropped"
        /\ th[h].raw = MsgBlank
        /\ th[h].session_id \in DOMAIN sessions
        /\ sessions[th[h].session_id].message_count > 0

(***************************************************************************)
(* C11.  The assistant message of a turn is persisted with exactly the     *)
(* timestamp sent in the turn's message_start event.  That timestamp is    *)
(* fixed before the adapter is invoked or any chunk is emitted, it is      *)
(* later than the timestamp of the turn's committed user message, and it   *)
(* is earlier than the time at which the assistant message is committed.   *)
(***************************************************************************)
C11_BotTimestampFromStart ==
    [][\A h \in Handlers :
           /\ (th'[h].pc \in {"call", "stream", "finalize", "save_bot", "title_check",
                              "title_write", "done"})
              => /\ th'[h].events[3].event = "message_start"
                 /\ th'[h].events[3].timestamp = th'[h].bot_timestamp
                 /\ \A m \in {messages'[i] : i \in 1..Len(messages')} :
                        (m.turn = th'[h].turn /\ m.role = "user")
                            => m.timestamp < th'[h].bot_timestamp
           /\ (th[h].pc = "call")
              => /\ th[h].prompt = NoPrompt /\ ~th[h].backend_called
                 /\ \A k \in 1..Len(th[h].events) : ~IsChunk(th[h].events[k])
           /\ (th[h].pc \in {"call", "stream", "finalize", "save_bot"})
              => th'[h].bot_timestamp = th[h].bot_timestamp
           /\ (th[h].pc = "save_bot" /\ th'[h].pc = "title_check")
              => /\ Len(messages') = Len(messages) + 1
                 /\ messages'[Len(messages')].role = "assistant"
                 /\ messages'[Len(messages')].turn = th[h].turn
                 /\ messages'[Len(messages')].timestamp = th[h].events[3].timestamp
                 /\ messages'[Len(messages')].timestamp < clock]_vars

\* A streamed turn of several chunks whose assistant message is committed.
C11_Witness ==
    \E h \in Handlers :
        /\ Completed(h)
        /\ th[h].returned = "generator"
        /\ Len(ChunkContents(h)) >= 3
        /\ \E m \in TurnMessages(th[h].turn, "assistant") :
               m.timestamp = th[h].events[3].timestamp

(***************************************************************************)
(* C12.  On the first turn of a session (no message of the session was     *)
(* persisted when its send_message arrived) the prompt handed to the       *)
(* backend is the first-turn scaffold: it has no "Recent Conversation"     *)
(* section, only persona, instructions, background and the new question.   *)
(***************************************************************************)
C12_FirstTurnScaffold ==
    \A h \in Handlers :
        (/\ AfterCall(h)
         /\ th[h].backend_called
         /\ \A i \in 1..Len(messages) :
                messages[i].session_id = th[h].session_id => messages[i].turn >= th[h].turn)
        => /\ th[h].prompt.scaffold = "first"
           /\ th[h].prompt.history = <<>>
           /\ th[h].prompt.question = th[h].user_message

\* The rows of the handler's session that were persisted when it built its
\* prompt: all but the assistant message of its own turn.
RowsAtAssembly(h) ==
    {i \in 1..Len(messages) :
        /\ messages[i].session_id = th[h].session_id
        /\ messages[i].turn <= th[h].turn
        /\ ~(messages[i].turn = th[h].turn /\ messages[i].role = "assistant")}

(***************************************************************************)
(* C13.  The history block of a prompt holds min(n, 10) messages, n being  *)
(* the number of messages of the session persisted at assembly time: the   *)
(* 10 with the latest timestamps, oldest first, each rendered under        *)
(* "User" or "Assistant" by its role; only messages of the session appear. *)
(***************************************************************************)
C13_HistoryIsLastTen ==
    \A h \in Handlers :
        (AfterCall(h) /\ th[h].prompt # NoPrompt)
        => LET rows == RowsAtAssembly(h)
               n    == Cardinality(rows)
               hist == th[h].prompt.history
           IN  /\ Len(hist) = IF n <= 10 THEN n ELSE 10
               /\ \A k \in 1..Len(hist) :
                      \E i \in rows :
                          /\ Cardinality({j \in rows : messages[j].timestamp
                                                          > messages[i].timestamp})
                                 = Len(hist) - k
                          /\ hist[k].content = messages[i].content
                          /\ hist[k].role = IF messages[i].role = "user"
                                            THEN "User" ELSE "Assistant"

\* A prompt built over more than ten messages of the session, while another
\* session holds newer ones.
C13_Witness ==
    \E h \in Handlers :
        /\ AfterCall(h)
        /\ th[h].prompt # NoPrompt
        /\ Cardinality(RowsAtAssembly(h)) > 10
        /\ Len(th[h].prompt.history) = 10
        /\ \E i \in 1..Len(messages) :
               /\ messages[i].session_id # th[h].session_id
               /\ \E j \in RowsAtAssembly(h) : messages[j].timestamp < messages[i].timestamp

\* The direct call has delivered all its output.
Finished(k) ==
    direct[k].pc \in {"returned", "ended"}

\* A download intent is detected in the message and the active (default)
\* profile has a primary document.
WantsDownload(k) ==
    /\ \E keyword \in download_keywords : Contains(Lower(direct[k].user_message), keyword)
    /\ profiles[DefaultProfileId].primary_resume_id \in DOMAIN resumes

\* The link sentence for the primary document of the default profile.
ExpectedLink ==
    LINK_PREFIX \o URL_BASE \o resumes[profiles[DefaultProfileId].primary_resume_id].filename

IsSuffix(p, q) ==
    Len(p) <= Len(q) /\ SubSeq(q, Len(q) - Len(p) + 1, Len(q)) = p

(***************************************************************************)
(* C14.  When a download intent is detected and the active profile has a   *)
(* primary document, the output of a streaming call and of a non-streaming *)
(* call both end with the same download link text: it is the last yielded  *)
(* fragment, or the suffix of the returned text, for every outcome of the  *)
(* backend call (an API key is configured, so that the backend is called). *)
(***************************************************************************)
C14_BothModesEndWithLink ==
    \A k \in CallIds :
        (GEMINI_API_KEY /\ Finished(k) /\ WantsDownload(k))
        => IF direct[k].pc = "ended"
           THEN /\ direct[k].yielded # <<>>
                /\ direct[k].yielded[Len(direct[k].yielded)] = ExpectedLink
           ELSE IsSuffix(ExpectedLink, direct[k].result)

\* Generation failed in the handler's turn: no API key, the backend call
\* raised, the stream raised part-way, or the stream brought no text.
GenerationFailed(h) ==
    /\ th[h].prompt # NoPrompt
    /\ \/ ~GEMINI_API_KEY
       \/ th[h].returned = "str" /\ th[h].backend_called
       \/ /\ th[h].returned = "generator"
          /\ \/ \E i \in 1..Len(th[h].script) : th[h].script[i] = RAISE
             \/ \A i \in 1..Len(th[h].script) : th[h].script[i] = <<>>

(***************************************************************************)
(* C15.  However generation fails (the backend call raises, the stream     *)
(* raises part-way, no usable text comes back, no API key is configured),  *)
(* the turn still ends with message_end and typing(false), persists one    *)
(* assistant message holding fallback text, leaves message_count raised by *)
(* 2 and emits no error event.                                             *)
(***************************************************************************)
C15_FailureStillCompletes ==
    \A h \in Handlers :
        (Completed(h) /\ GenerationFailed(h))
        => LET ev   == th[h].events
               bots == TurnMessages(th[h].turn, "assistant")
           IN  /\ Len(ev) >= 5
               /\ ev[Len(ev) - 1].event = "message_end"
               /\ ev[Len(ev)] = [event |-> "typing", typing |-> FALSE]
               /\ \A k \in 1..Len(ev) : ev[k].event # "error"
               /\ Cardinality(bots) = 1
               /\ \A m \in bots :
                      \/ m.content \in {KEY_MISSING_TEXT, APOLOGY_TEXT}
                      \/ Contains(m.content, STREAM_ERROR_TEXT)
               /\ Cardinality(TurnMessages(th[h].turn, "user")) = 1
               /\ sessions[th[h].session_id].message_count
                      = 2 * completed[th[h].session_id]

\* The backend raised while the stream of the call was consumed.
StreamFailed(k) ==
    direct[k].pc = "ended" /\ \E i \in 1..Len(direct[k].script) : direct[k].script[i] = RAISE

\* The fragments with text the backend delivered before it first raised.
BeforeFailure(script) ==
    LET p == CHOOSE i \in 1..Len(script) :
                 script[i] = RAISE /\ \A j \in 1..(i - 1) : script[j] # RAISE
        HasText(fragment) == fragment # <<>>
    IN  SelectSeq(SubSeq(script, 1, p - 1), HasText)

(***************************************************************************)
(* C16.  As claimed: when the backend raises while the stream is consumed, *)
(* the sequence yields exactly one more fragment, the fixed apology, and   *)
(* ends: the apology is its last fragment and nothing is raised to the     *)
(* consumer, whether or not a download intent was detected.                *)
(***************************************************************************)
C16_ApologyIsLast ==
    \A k \in CallIds :
        StreamFailed(k)
        => /\ direct[k].yielded = BeforeFailure(direct[k].script) \o <<STREAM_ERROR_TEXT>>
           /\ ~direct[k].raised

(***************************************************************************)
(* C16, amended.  When the backend raises while the stream is consumed,    *)
(* the sequence yields exactly one more fragment of the response, the      *)
(* fixed apology, and nothing further from the backend; it then ends,      *)
(* after yielding the download link as the last fragment when a download   *)
(* intent was detected and the profile has a primary document.  Nothing is *)
(* raised to the consumer.                                                 *)
(***************************************************************************)
C16_ApologyThenOnlyLink ==
    \A k \in CallIds :
        StreamFailed(k)
        => /\ direct[k].yielded =
                  BeforeFailure(direct[k].script) \o <<STREAM_ERROR_TEXT>>
                      \o (IF WantsDownload(k) THEN <<ExpectedLink>> ELSE <<>>)
           /\ ~direct[k].raised

\* A stream that failed after its first fragment, in a call with a download
\* intent, and another without one.
C16_Witness ==
    /\ \E k \in CallIds :
           /\ StreamFailed(k)
           /\ WantsDownload(k)
           /\ direct[k].yielded = <<FragHel, STREAM_ERROR_TEXT, ExpectedLink>>
    /\ \E k \in CallIds :
           /\ StreamFailed(k)
           /\ ~WantsDownload(k)
           /\ direct[k].yielded = <<FragHel, STREAM_ERROR_TEXT>>

(***************************************************************************)
(* C17.  When a commit fails during a turn (of the user message, of the    *)
(* assistant message or of the title), the rest of the turn is not         *)
(* executed, a generic error event is emitted to the client, and no        *)
(* session's rows are changed by the failure.                              *)
(***************************************************************************)
C17_WriteFailureSurfacesError ==
    [][\A h \in Handlers :
           (th[h].pc # "crashed" /\ th'[h].pc = "crashed")
           => /\ Len(th'[h].events) = Len(th[h].events) + 1
              /\ th'[h].events[Len(th'[h].events)].event = "error"
              /\ SubSeq(th'[h].events, 1, Len(th[h].events)) = th[h].events
              /\ UNCHANGED <<sessions, messages>>
              /\ \A g \in Handlers \ {h} : th'[g] = th[g]]_vars

\* The turn of handler g has sent message_start and has not yet committed its
\* assistant message.
Generating(g) ==
    th[g].pc \in {"call", "stream", "finalize", "save_bot"}

(***************************************************************************)
(* C18.  Turns of one session are serialized: no handler persists the user *)
(* message of a send_message (and goes on to emit its events) while        *)
(* another turn of the same session is between its message_start and the   *)
(* commit of its assistant message.                                        *)
(***************************************************************************)
C18_TurnsSerialized ==
    [][\A h \in Handlers :
           (th[h].pc = "loaded" /\ th'[h].pc = "echo")
           => ~\E g \in Handlers \ {h} :
                   th[g].session_id = th[h].session_id /\ Generating(g)]_vars

(***************************************************************************)
(* C19.  Once a connection is closed nothing more is written to the store  *)
(* on its behalf: no step of a handler that serves a message sent over it  *)
(* changes sessions or messages, also when the connection closed while the *)
(* response was being generated.                                           *)
(***************************************************************************)
C19_NoWritesAfterClose ==
    [][\A h \in Handlers :
           (/\ th[h].conn \in ConnIds
            /\ conns[th[h].conn].state = "closed"
            /\ th'[h] # th[h])
           => UNCHANGED <<sessions, messages>>]_vars

(***************************************************************************)
(* C20.  GET /api/history/<session_id>/messages on a session that has an   *)
(* owning identifier answers Unauthorized, with none of the messages, to   *)
(* every request whose user_identifier is not the owner's; the messages    *)
(* are returned only to a request that supplies the owning identifier.     *)
(* Stated for sessions that hold messages.                                 *)
(***************************************************************************)
C20_MessagesOnlyForOwner ==
    [][(/\ http' # http
        /\ http'.request.route = "messages"
        /\ http'.request.session_id \in DOMAIN sessions
        /\ Truthy(sessions[http'.request.session_id].user_identifier)
        /\ \E i \in 1..Len(messages) : messages[i].session_id = http'.request.session_id)
       => IF http'.request.user_identifier
                 = sessions[http'.request.session_id].user_identifier
          THEN http'.status = 200
          ELSE http'.status = 401 /\ "messages" \notin DOMAIN http']_vars

(***************************************************************************)
(* C21.  With requests served one at a time: the commit of DELETE           *)
(* /api/history/<session_id> on an existing session removes that session   *)
(* row and every message of it, and leaves every other session row and     *)
(* every other message as it was; a DELETE that names no stored session    *)
(* (a repeated DELETE included) answers 404 and changes neither table; no  *)
(* other step ever removes a message.                                      *)
(***************************************************************************)
C21_DeleteRemovesOnlyItsSession ==
    [][/\ (deleting.pc = "marked" /\ deleting'.pc = "none")
          => LET s == deleting.session_id
                 Others(m) == m.session_id # s
             IN  /\ s \in DOMAIN sessions
                 /\ DOMAIN sessions' = DOMAIN sessions \ {s}
                 /\ \A x \in DOMAIN sessions' : sessions'[x] = sessions[x]
                 /\ messages' = SelectSeq(messages, Others)
                 /\ http'.request = [route |-> "delete", session_id |-> s]
                 /\ http'.status = 200
       /\ (deleting.pc = "none" /\ deleting'.pc = "marked")
          => /\ deleting'.session_id \in DOMAIN sessions
             /\ UNCHANGED <<sessions, messages>>
       /\ (http' # http /\ http'.request.route = "delete")
          => IF http'.request.session_id \in DOMAIN sessions
             THEN http'.status = 200
             ELSE /\ http'.status = 404
                  /\ UNCHANGED <<sessions, messages, deleting>>
       /\ ~(deleting.pc = "marked" /\ deleting'.pc = "none")
          => IsPrefix(messages, messages')]_vars

\* A session with a completed turn was deleted with its messages, the
\* messages of another session are still stored, and a second DELETE of the
\* same identifier was answered 404.
C21_Witness ==
    /\ http.status = 404
    /\ http.request.route = "delete"
    /\ http.request.session_id \notin DOMAIN sessions
    /\ completed[http.request.session_id] >= 1
    /\ \A i \in 1..Len(messages) : messages[i].session_id # http.request.session_id
    /\ \E i \in 1..Len(messages) : messages[i].session_id \in DOMAIN sessions

(***************************************************************************)
(* C30.  No persisted message references a session that does not exist.    *)
(* When DELETE /api/history/<session_id> is served while a turn of that    *)
(* session is between the commit of its user message and the commit of its *)
(* assistant message (the request found the user message of the turn and   *)
(* not yet its assistant message), then once the DELETE has committed no   *)
(* assistant message of that turn is stored for the deleted session.       *)
(***************************************************************************)
C30_NoOrphanAssistantMessage ==
    [][(deleting.pc = "marked" /\ deleting'.pc = "none")
       => \A m \in deleting.rows :
              m.role = "user"
              => ~\E j \in 1..Len(messages') :
                      /\ messages'[j].session_id = deleting.session_id
                      /\ messages'[j].turn = m.turn
                      /\ messages'[j].role = "assistant"]_vars

(***************************************************************************)
(* C22.  Every accepted connect ends with the connection in the room of    *)
(* its resolved identifier (the one the client supplied, else a generated  *)
(* one) and exactly one connected event sent to it; a Session that already *)
(* exists under the identifier is left unchanged and no second record is   *)
(* created, otherwise exactly one record with message_count 0 is created;  *)
(* also for concurrent connects with the same new identifier.  (Stated for *)
(* identifiers that no client supplies before they are acknowledged to the *)
(* connection they were generated for.)                                    *)
(***************************************************************************)
C22_ConnectAcknowledged ==
    [][\A c \in ConnIds :
           (/\ conns[c].state = "joined" /\ conns'[c].state # "joined"
            /\ \A d \in ConnIds : conns[d].session_id = conns[c].session_id
                                      => conns[d].session_arg = conns[c].session_arg)
           => LET session_id == conns[c].session_id
              IN  /\ conns[c].session_arg # Nil => session_id = conns[c].session_arg
                  /\ c \in rooms'[session_id]
                  /\ "connected" \notin inbox[c]
                  /\ inbox'[c] = {"connected"}
                  /\ IF session_id \in DOMAIN sessions
                     THEN sessions' = sessions
                     ELSE /\ DOMAIN sessions' = DOMAIN sessions \cup {session_id}
                          /\ sessions'[session_id].message_count = 0
                          /\ \A s \in DOMAIN sessions : sessions'[s] = sessions[s]]_vars

\* The profile a turn selects: the one its message names, or the default one
\* when the message names none.
SelectedProfile(h) ==
    IF th[h].profile_id = NO_PROFILE
    THEN CHOOSE p \in DOMAIN profiles : profiles[p].is_default
    ELSE th[h].profile_id

\* The texts of the active documents assigned to a profile.
ProfileTexts(p) ==
    IF p \notin DOMAIN profiles THEN {}
    ELSE {resumes[r].content : r \in {q \in profiles[p].resumes :
                                          resumes[q].is_active /\ resumes[q].content # <<>>}}

(***************************************************************************)
(* C23.  The background of a prompt is built from exactly the active       *)
(* documents assigned to the profile the message selects, or to the        *)
(* default profile when the message carries no selector: for every         *)
(* profile_id a client can send, no document of another profile and no     *)
(* deactivated document contributes, and when there is no text the fixed   *)
(* placeholder sentence stands in the section.                             *)
(***************************************************************************)
C23_BackgroundOfSelectedProfile ==
    \A h \in Handlers :
        (AfterCall(h) /\ th[h].prompt # NoPrompt)
        => /\ th[h].prompt.background = ProfileTexts(SelectedProfile(h))
           /\ th[h].prompt.section =
                  IF ProfileTexts(SelectedProfile(h)) = {}
                  THEN {NO_RESUME_TEXT} ELSE ProfileTexts(SelectedProfile(h))

\* This step is the handler's call of generate_chatbot_response.
Assembles(h) ==
    th[h].pc = "call" /\ th'[h].pc # "call"

\* The link sentence occurs in a text of the prompt built by the step.
LinkInPrompt(h) ==
    \/ Contains(th'[h].prompt.question, LINK_PREFIX)
    \/ \E text \in th'[h].prompt.section : Contains(text, LINK_PREFIX)

LinkInHistory(h) ==
    \E k \in 1..Len(th'[h].prompt.history) :
        Contains(th'[h].prompt.history[k].content, LINK_PREFIX)

(***************************************************************************)
(* C24.  As claimed: assembling the prompt of a turn writes nothing to the *)
(* store (sessions, messages, settings, profiles and documents are the     *)
(* same before and after), and the download link text is never part of the *)
(* prompt passed to the backend.                                           *)
(***************************************************************************)
C24_AssemblyPureNoLink ==
    [][\A h \in Handlers :
           Assembles(h)
           => /\ UNCHANGED <<sessions, messages, settings, profiles, resumes>>
              /\ th'[h].prompt # NoPrompt
                     => ~LinkInPrompt(h) /\ ~LinkInHistory(h)]_vars

(***************************************************************************)
(* C24, amended.  Assembling the prompt of a turn writes nothing to the    *)
(* store (sessions, messages, settings, profiles and documents are the     *)
(* same before and after), and the download link of the turn is not put    *)
(* into the prompt: the question is the user's message as sent and the     *)
(* link sentence occurs in the prompt only inside the history, where an    *)
(* earlier assistant message that ended with its link is replayed as it    *)
(* was persisted.                                                          *)
(***************************************************************************)
C24_AssemblyPureLinkOnlyInHistory ==
    [][\A h \in Handlers :
           Assembles(h)
           => /\ UNCHANGED <<sessions, messages, settings, profiles, resumes>>
              /\ th'[h].prompt # NoPrompt
                     => /\ th'[h].prompt.question = th[h].user_message
                        /\ ~LinkInPrompt(h)
                        /\ \A k \in 1..Len(th'[h].prompt.history) :
                               Contains(th'[h].prompt.history[k].content, LINK_PREFIX)
                               => \E i \in 1..Len(messages) :
                                      /\ messages[i].session_id = th[h].session_id
                                      /\ messages[i].role = "assistant"
                                      /\ messages[i].turn < th[h].turn
                                      /\ messages[i].content
                                             = th'[h].prompt.history[k].content]_vars

\* The prompt of a second download request in a session: the turn has a link
\* of its own and the history replays the link of the first.
C24_Witness ==
    \E h \in Handlers :
        /\ AfterCall(h)
        /\ th[h].prompt # NoPrompt
        /\ th[h].link # <<>>
        /\ \E k \in 1..Len(th[h].prompt.history) :
               /\ th[h].prompt.history[k].role = "Assistant"
               /\ Contains(th[h].prompt.history[k].content, LINK_PREFIX)

\* The sessions an identifier owns.
OwnedBy(user_identifier) ==
    {s \in DOMAIN sessions : sessions[s].user_identifier = user_identifier}

WritesTitle(h) ==
    th[h].pc = "title_write" /\ th'[h].pc = "done"

\* The title the rule of the claim gives for a trimmed message.
ExpectedTitle(m) ==
    IF Len(m) <= 50 THEN m ELSE SubSeq(m, 1, 50) \o <<".", ".", ".">>

LoginPost ==
    /\ auth'.limit # auth.limit
    /\ http'.request.route = "admin_login"
    /\ http'.request.method = "POST"

\* The account the posted form names, if it is stored.
NamesAccount(u) ==
    Strip(http'.request.username) = u

\* The post reached the handler from a browser that is not logged in, names
\* account u, which is active and not locked, and carries a password that is
\* not the account's.
WrongPasswordAttempt(u) ==
    /\ LoginPost
    /\ NamesAccount(u)
    /\ http'.status # 429
    /\ ~is_authenticated(http'.request.browser)
    /\ http'.request.password \notin {"", users[u].password}
    /\ users[u].is_active
    /\ ~is_locked(users[u], clock)

\* Some browser gains the login of account u on this step.
LogsIn(u) ==
    \E b \in Browsers : auth'.user[b] = u /\ auth.user[b] # u

\* C27: a wrong-password attempt adds one to failed_login_attempts, and the one
\* that brings it to 5 sets locked_until 30 minutes ahead, no earlier attempt
\* locking the account; while the account is locked a login post that names it,
\* with whatever password, changes neither the users row nor who is logged in
\* and is not answered with a redirect into the pages; a login happens only by
\* a post with the account's password while it is not locked, and it leaves
\* failed_login_attempts at 0 and locked_until cleared; the counter changes in
\* no other way, apart from the administrator's unlock.
C27_LockAfterFiveWrong ==
    [][\A u \in DOMAIN users :
          /\ WrongPasswordAttempt(u) =>
                /\ users'[u].failed_login_attempts = users[u].failed_login_attempts + 1
                /\ users'[u].failed_login_attempts < 5 =>
                      /\ users'[u].locked_until = {}
                      /\ http'.remaining_attempts = 5 - users'[u].failed_login_attempts
                /\ users'[u].failed_login_attempts = 5 =>
                      /\ users'[u].locked_until = {clock + 30}
                      /\ is_locked(users'[u], clock')
                /\ auth'.user = auth.user
          /\ users[u].failed_login_attempts < 5 => users[u].locked_until = {}
          /\ (LoginPost /\ NamesAccount(u) /\ is_locked(users[u], clock)) =>
                /\ users' = users
                /\ auth'.user = auth.user
                /\ ~is_authenticated(http'.request.browser) => http'.status # 302
          /\ LogsIn(u) =>
                /\ LoginPost
                /\ NamesAccount(u)
                /\ http'.request.password = users[u].password
                /\ ~is_locked(users[u], clock)
                /\ users'[u].failed_login_attempts = 0
                /\ users'[u].locked_until = {}
          /\ users'[u].failed_login_attempts # users[u].failed_login_attempts =>
                \/ WrongPasswordAttempt(u)
                \/ LogsIn(u)
                \/ http'.request.route = "unlock_user"
          /\ users'[u].locked_until # users[u].locked_until =>
                \/ WrongPasswordAttempt(u) /\ users'[u].failed_login_attempts >= 5
                \/ LogsIn(u)
                \/ http'.request.route = "unlock_user"]_vars

\* The account was locked by its fifth wrong password at minute 0 and, a
\* quarter of an hour later, a post with its password has just been turned
\* away.
C27_Witness ==
    /\ users[AdminName].failed_login_attempts = 5
    /\ users[AdminName].locked_until = {30}
    /\ clock = 15
    /\ http.status = 200
    /\ http.request.route = "admin_login"
    /\ http.request.password = users[AdminName].password
    /\ http.flash = "Account is temporarily locked"
    /\ \A b \in Browsers : auth.user[b] = Anonymous

\* The profiles that have is_default set, in a table.
Defaults(rows) ==
    {p \in DOMAIN rows : rows[p].is_default}

\* C28: with the profile requests handled one at a time from the state left by
\* start-up, exactly one profile has is_default set before and after every
\* request; a profile that becomes the default is the only one afterwards; the
\* flag leaves a profile only when another profile is made the default, and
\* the default profile is never removed.
C28_ExactlyOneDefault ==
    [][/\ Cardinality(Defaults(profiles)) = 1
       /\ Cardinality(Defaults(profiles')) = 1
       /\ \A p \in Defaults(profiles') \ Defaults(profiles) :
             /\ Defaults(profiles') = {p}
             /\ http'.request.route \in {"create_profile", "edit_profile"}
             /\ http'.request.is_default
       /\ \A p \in Defaults(profiles) :
             /\ p \in DOMAIN profiles'
             /\ ~profiles'[p].is_default => Defaults(profiles') \ Defaults(profiles) # {}]_vars

\* Three profiles, the default moved off the profile start-up created, and
\* the request to delete the new default has just been refused.
C28_Witness ==
    /\ Cardinality(DOMAIN profiles) = 3
    /\ Defaults(profiles) # {1}
    /\ http.status = 302
    /\ http.request.route = "delete_profile"
    /\ http.request.profile_id \in Defaults(profiles)
    /\ http.location = "admin_profiles"
    /\ http.flash = "Cannot delete the default profile"

\* C29: whenever a send_message handler persists a message or sends a turn
\* event, the session it does so for is the session the connection that sent
\* the send_message was acknowledged with at connect.
C29_OnlyAcknowledgedSession ==
    [][\A h \in Handlers :
          LET acknowledged == conns[th[h].conn].session_id
          IN  /\ (InTurn(h) /\ th'[h] # th[h] /\ Len(messages') > Len(messages)) =>
                    messages'[Len(messages')].session_id = acknowledged
              /\ (InTurn(h) /\ th'[h].conn = th[h].conn
                      /\ th'[h].session_id \in DOMAIN sessions
                      /\ Len(th'[h].events) > Len(th[h].events)) =>
                    th[h].session_id = acknowledged]_vars

====
